---- MODULE Spec2Model ----
(***************************************************************************)
(* Model of @kozy/tracing: the span lifecycle wrapper (core/span-utils),   *)
(* the ambient trace context (core/trace-context), the Service Bus         *)
(* adapters (service-bus/index), the Express middleware (http/express)     *)
(* and the logger mixin (logger/index).                                    *)
(*                                                                         *)
(* One worker runs several logical flows interleaved.  A flow is a chain   *)
(* of async function activations (frames); every action below is one       *)
(* synchronous run between two suspension points of one flow, so any two   *)
(* flows interleave at every await.                                        *)
(***************************************************************************)
EXTENDS Naturals, Sequences, FiniteSets, TLC

VARIABLES
    spans,      \* every span started so far; a span's id is its index
    stack,      \* per flow: the chain of async activations, innermost last
    active,     \* per flow: the span active in the flow's OpenTelemetry context
    als,        \* per flow: the ambient Identity scopes, innermost last
    outcome,    \* per flow: the promise of the flow's top-level call
    seen,       \* per flow: what getCurrentTraceContext() returned to the flow's code
    after,      \* per flow: what the caller read once the top-level call had settled
    callerId,   \* per flow: the Identity of the caller before the top-level call
    msg,        \* per flow: the application properties of the received message
    idgen,      \* number of ids generateCorrelationId() has produced
    http,       \* per flow: the HTTP request, its response and how far it got
    logs,       \* the records the logger emitted, with the flow that logged
    busOptions, \* per flow: the options withServiceBusTracing was given
    bag,        \* per flow: the property bag of the message the flow publishes
    tracer,     \* the tracer module: sdk, isInitialized and the calls in flight
    helped      \* per flow: the span helper calls made, with the span each found active

vars == <<spans, stack, active, als, outcome, seen, after, callerId, msg, idgen,
          http, logs, busOptions, bag, tracer, helped>>

-----------------------------------------------------------------------------
(* Bounds *)

MaxSpans == 3       \* spans started in one run
MaxSdks == 3        \* SDKs created in one run
MaxPending == 2     \* shutdownTracing calls in flight at one time
MaxHelperCalls == 2 \* span helper calls made by one flow

-----------------------------------------------------------------------------
(* Values *)

Flows == {"A", "B"}

NoSpan == 0

Unset == "undefined"

Fields == {"traceId", "spanId", "correlationId", "requestId",
           "eventId", "eventType", "userId"}

\* The empty/default Identity: every field unset.
EmptyContext == [k \in Fields |-> Unset]

\* Values a wrapped function can throw: an Error, a thrown string, and an
\* object with a message that is no Error.
ErrDbDown == [isError |-> TRUE,  name |-> "Error",  message |-> "db down"]
ErrString == [isError |-> FALSE, name |-> "string", message |-> Unset]
ErrObject == [isError |-> FALSE, name |-> "object", message |-> "plain"]
NoErr     == [isError |-> FALSE, name |-> "none",   message |-> Unset]

Thrown == {ErrDbDown, ErrString, ErrObject}

NoAttrs == [k \in {} |-> Unset]

\* A span name is the list of the parts of its string; the empty string is
\* the empty list.  The spanName option is absent, a string or a function.
NoSpanName == [type |-> "undefined", value |-> << >>]

\* withServiceBusTracing called without options.
DefaultBusOptions == [spanName |-> NoSpanName]

\* The context of a handler that is no message handler.
NoHandlerContext ==
    [correlationId |-> Unset, traceId |-> Unset, eventId |-> Unset,
     eventType |-> Unset, userId |-> Unset]

\* The property bag of an outgoing message, as the caller built it.
NewBag(props) ==
    [initial |-> props,         \* the bag before any call (history)
     props |-> props,
     injections |-> << >>,      \* one entry per injectTraceIntoServiceBusMessage call
     sent |-> {}]               \* what the caller sent, and after which call

\* A flow that is no HTTP request.
NoRequest == [pc |-> "none"]

\* No initTracing call made yet.
NoCall == [op |-> "none", disabled |-> FALSE, wasInitialized |-> FALSE,
           created |-> FALSE, isInitialized |-> FALSE]

\* The tracer module as loaded: let sdk = null, let isInitialized = false.
NewTracer(envDisabled) ==
    [sdk |-> 0,                 \* the index in sdks of the SDK in sdk; 0 is null
     isInitialized |-> FALSE,
     sdks |-> << >>,            \* every SDK created: "started" or "shutdown"
     pending |-> << >>,         \* the SDK each shutdownTracing call in flight awaits
     envDisabled |-> envDisabled,   \* OTEL_SDK_DISABLED is 'true'
     last |-> NoCall,           \* the latest initTracing call (history)
     settled |-> "none"]        \* how the latest shutdownTracing call settled (history)

NoTracer == NewTracer(FALSE)

\* Object.assign / setAttributes: keys of b overwrite keys of a.
Merge(a, b) ==
    [k \in (DOMAIN a) \cup (DOMAIN b) |-> IF k \in DOMAIN b THEN b[k] ELSE a[k]]

Last(s) == s[Len(s)]

Front(s) == SubSeq(s, 1, Len(s) - 1)

-----------------------------------------------------------------------------
(* Spans and the OpenTelemetry context *)

\* getCurrentSpan(): the span active in the calling flow's context.
getCurrentSpan(f) == active[f]

\* The span of the innermost withSpan activation of a chain.
RECURSIVE EnclosingSpan(_)
EnclosingSpan(stk) ==
    IF stk = << >> THEN NoSpan
    ELSE IF Last(stk).kind = "withSpan" THEN Last(stk).span
    ELSE EnclosingSpan(Front(stk))

\* tracer.startActiveSpan(name, {kind, attributes}, cb): the new span is a
\* child of the span active at the call.
NewSpan(f, name, kind, attrs, parent, encl) ==
    [flow |-> f, name |-> name, kind |-> kind, attrs |-> attrs,
     parent |-> parent,         \* parent span recorded at creation
     encl |-> encl,             \* span of the enclosing withSpan call (history)
     status |-> "UNSET", message |-> Unset,
     exceptions |-> {},         \* values passed to recordException
     events |-> {},             \* names passed to addEvent
     log |-> <<"start">>,       \* the lifecycle's calls on the span, in order
     ends |-> 0,                \* number of end() calls
     fnStatus |-> "UNSET",      \* last status fn itself wrote (history)
     fnOut |-> "running",       \* how fn completed
     fnErr |-> NoErr,           \* what fn threw
     promise |-> "pending",     \* withSpan's own promise
     value |-> NoErr]           \* what withSpan's promise rejected with

\* startActiveSpan runs its callback with the new span active.
ActivateMutant(current, span) == current

Activate(current, span) == span

Frame(kind, span, saved) ==
    [kind |-> kind, span |-> span, pc |-> "fn", err |-> NoErr,
     awaited |-> FALSE,         \* fn has passed a suspension point
     arg |-> NoHandlerContext,  \* the context a message handler was called with
     saved |-> saved]

\* The status message withSpan writes for a thrown value.
StatusMessageMutant(e) == "Unknown error"

StatusMessageDuckMutant(e) == IF e.message # Unset THEN e.message ELSE "Unknown error"

StatusMessage(e) == IF e.isError THEN e.message ELSE "Unknown error"

\* withSpan after fn resolved: setStatus(OK), then finally end().
FinishOkMutant(s) ==
    [s EXCEPT !.log = s.log \o <<"end">>, !.ends = s.ends + 1]

FinishOk(s) ==
    [s EXCEPT !.status = "OK", !.message = Unset,
              !.log = s.log \o <<"setStatus", "end">>,
              !.ends = s.ends + 1]

\* withSpan after fn threw e: setStatus(ERROR, message), recordException(e),
\* rethrow, then finally end().
FinishErrMutant(s, e) ==
    [s EXCEPT !.status = "ERROR", !.message = StatusMessage(e),
              !.exceptions = s.exceptions \cup {e},
              !.log = s.log \o <<"setStatus", "recordException">>]

FinishErr(s, e) ==
    [s EXCEPT !.status = "ERROR", !.message = StatusMessage(e),
              !.exceptions = s.exceptions \cup {e},
              !.log = s.log \o <<"setStatus", "recordException", "end">>,
              !.ends = s.ends + 1]

\* What withSpan's promise rejects with: the caught value, rethrown.
RethrownMutant(e) == ErrDbDown

Rethrown(e) == e

-----------------------------------------------------------------------------
(* A flow's chain of activations *)

Top(f) == Last(stack[f])

Running(f) == stack[f] # << >> /\ Top(f).pc = "fn"

InFn(f) == Running(f) /\ Top(f).kind = "withSpan"

SetTop(f, fr) == [stack EXCEPT ![f] = Front(stack[f]) \o <<fr>>]

\* withSpan(spanName, fn, options) up to fn's first suspension point.
Push(f, name, kind, attrs) ==
    LET id == Len(spans) + 1
    IN /\ spans' = Append(spans, NewSpan(f, name, kind, attrs,
                                         getCurrentSpan(f), EnclosingSpan(stack[f])))
       /\ stack' = [stack EXCEPT ![f] = Append(@, Frame("withSpan", id, active[f]))]
       /\ active' = [active EXCEPT ![f] = Activate(@, id)]

withSpan(f) ==
    /\ Len(spans) < MaxSpans
    /\ \/ stack[f] = << >> /\ outcome[f].state = "idle"
       \/ InFn(f)
    /\ Push(f, "op", "INTERNAL", NoAttrs)
    /\ outcome' = [outcome EXCEPT ![f].state = "pending"]
    /\ UNCHANGED <<als, seen, after, callerId, msg, idgen, http, logs, busOptions, bag, tracer, helped>>

\* fn awaits something that settles: a suspension point.
FnAwait(f) ==
    /\ InFn(f)
    /\ ~Top(f).awaited
    /\ stack' = SetTop(f, [Top(f) EXCEPT !.awaited = TRUE])
    /\ UNCHANGED <<spans, active, als, outcome, seen, after, callerId, msg, idgen, http, logs, busOptions, bag, tracer, helped>>

\* fn writes a status on the active span (span.setStatus / setSpanStatus).
setSpanStatus(f, code) ==
    /\ InFn(f)
    /\ getCurrentSpan(f) # NoSpan
    /\ spans[getCurrentSpan(f)].fnStatus # code
    /\ spans' = [spans EXCEPT ![getCurrentSpan(f)] =
                    [@ EXCEPT !.status = code,
                              !.message = IF code = "ERROR" THEN "by fn" ELSE Unset,
                              !.fnStatus = code]]
    /\ UNCHANGED <<stack, active, als, outcome, seen, after, callerId, msg, idgen, http, logs, busOptions, bag, tracer, helped>>

\* fn's promise resolves.
FnReturn(f) ==
    /\ InFn(f)
    /\ stack' = SetTop(f, [Top(f) EXCEPT !.pc = "returned"])
    /\ spans' = [spans EXCEPT ![Top(f).span].fnOut = "returned"]
    /\ UNCHANGED <<active, als, outcome, seen, after, callerId, msg, idgen, http, logs, busOptions, bag, tracer, helped>>

\* fn throws, or its promise rejects, with e.
FnThrow(f, e) ==
    /\ InFn(f)
    /\ stack' = SetTop(f, [Top(f) EXCEPT !.pc = "threw", !.err = e])
    /\ spans' = [spans EXCEPT ![Top(f).span] =
                    [@ EXCEPT !.fnOut = "threw", !.fnErr = e]]
    /\ UNCHANGED <<active, als, outcome, seen, after, callerId, msg, idgen, http, logs, busOptions, bag, tracer, helped>>

\* The work fn awaits is cancelled or abandoned: its promise never settles, so
\* the continuation of `await fn(span)` is never scheduled.
FnAbandon(f) ==
    /\ InFn(f)
    /\ stack' = SetTop(f, [Top(f) EXCEPT !.pc = "abandoned"])
    /\ spans' = [spans EXCEPT ![Top(f).span].fnOut = "abandoned"]
    /\ UNCHANGED <<active, als, outcome, seen, after, callerId, msg, idgen, http, logs, busOptions, bag, tracer, helped>>

\* withSpan resumes after `await fn(span)`: try / catch / finally.
withSpanFinish(f) ==
    /\ stack[f] # << >>
    /\ Top(f).kind = "withSpan"
    /\ Top(f).pc \in {"returned", "threw"}
    /\ spans' = [spans EXCEPT ![Top(f).span] =
                    IF Top(f).pc = "returned" THEN FinishOk(@)
                    ELSE FinishErr(@, Top(f).err)]
    /\ stack' = SetTop(f, [Top(f) EXCEPT !.pc = "ended",
                                         !.err = IF Top(f).pc = "threw"
                                                 THEN Rethrown(@) ELSE NoErr])
    /\ UNCHANGED <<active, als, outcome, seen, after, callerId, msg, idgen, http, logs, busOptions, bag, tracer, helped>>

\* How the awaiting activation continues with a settled child: a runWith
\* callback returns the child's promise; a fn that awaits a nested withSpan
\* without a try/catch of its own rejects with the child's rejection.
Resume(fr, failed, e) ==
    IF fr.kind = "runWith"
    THEN [fr EXCEPT !.pc = IF failed THEN "threw" ELSE "returned",
                    !.err = IF failed THEN e ELSE NoErr]
    ELSE IF failed
         THEN [fr EXCEPT !.pc = "threw", !.err = e]
         ELSE fr

SettledMutant(failed, e) == [state |-> "resolved", value |-> NoErr]

Settled(failed, e) ==
    [state |-> IF failed THEN "rejected" ELSE "resolved", value |-> e]

\* withSpan's promise settles and the awaiting caller continues in its own
\* context.
withSpanSettle(f) ==
    /\ stack[f] # << >>
    /\ Top(f).kind = "withSpan"
    /\ Top(f).pc = "ended"
    /\ LET fr == Top(f)
           failed == fr.err # NoErr
           rest == Front(stack[f])
           caller == IF rest # << >> /\ Last(rest).kind = "withSpan"
                     THEN Last(rest).span ELSE NoSpan
       IN /\ spans' = [i \in 1..Len(spans) |->
                          IF i = fr.span
                          THEN [spans[i] EXCEPT
                                   !.promise = IF failed THEN "rejected" ELSE "resolved",
                                   !.value = fr.err]
                          ELSE IF i = caller /\ failed
                          THEN [spans[i] EXCEPT !.fnOut = "threw", !.fnErr = fr.err]
                          ELSE spans[i]]
          /\ active' = [active EXCEPT ![f] = fr.saved]
          /\ IF rest = << >>
             THEN /\ stack' = [stack EXCEPT ![f] = << >>]
                  /\ outcome' = [outcome EXCEPT ![f] = Settled(failed, fr.err)]
             ELSE /\ stack' = [stack EXCEPT ![f] =
                                 Front(rest) \o <<Resume(Last(rest), failed, fr.err)>>]
                  /\ outcome' = outcome
    /\ UNCHANGED <<als, seen, after, callerId, msg, idgen, http, logs, busOptions, bag, tracer, helped>>

-----------------------------------------------------------------------------
(* Specification of the span lifecycle: flows that call withSpan *)

Idle == [state |-> "idle", value |-> NoErr]

InitSpan ==
    /\ spans = << >>
    /\ stack = [f \in Flows |-> << >>]
    /\ active = [f \in Flows |-> NoSpan]
    /\ als = [f \in Flows |-> <<EmptyContext>>]
    /\ outcome = [f \in Flows |-> Idle]
    /\ seen = [f \in Flows |-> {}]
    /\ after = [f \in Flows |-> {}]
    /\ callerId = [f \in Flows |-> EmptyContext]
    /\ msg = [f \in Flows |-> NoAttrs]
    /\ idgen = 0
    /\ http = [f \in Flows |-> NoRequest]
    /\ logs = {}
    /\ busOptions = [f \in Flows |-> DefaultBusOptions]
    /\ bag = [f \in Flows |-> NewBag(NoAttrs)]
    /\ tracer = NoTracer
    /\ helped = [f \in Flows |-> << >>]

\* One flow exercising every way a wrapped function can behave.
NextSpan ==
    \E f \in {"A"} :
        \/ withSpan(f)
        \/ FnAwait(f)
        \/ \E code \in {"OK", "ERROR"} : setSpanStatus(f, code)
        \/ FnReturn(f)
        \/ \E e \in Thrown : FnThrow(f, e)
        \/ FnAbandon(f)
        \/ withSpanFinish(f)
        \/ withSpanSettle(f)

SpecSpan == InitSpan /\ [][NextSpan]_vars

\* fn ends the span through its argument: withSpan calls fn(span) with the
\* span itself.
FnEnd(f) ==
    /\ InFn(f)
    /\ spans[Top(f).span].ends = 0
    /\ spans' = [spans EXCEPT ![Top(f).span] =
                    [@ EXCEPT !.log = @ \o <<"end">>, !.ends = @ + 1]]
    /\ UNCHANGED <<stack, active, als, outcome, seen, after, callerId, msg, idgen,
                   http, logs, busOptions, bag, tracer, helped>>

\* One flow whose wrapped functions use every method of the span they are given.
NextHandle ==
    \E f \in {"A"} :
        \/ withSpan(f)
        \/ FnAwait(f)
        \/ \E code \in {"OK", "ERROR"} : setSpanStatus(f, code)
        \/ FnEnd(f)
        \/ FnReturn(f)
        \/ \E e \in Thrown : FnThrow(f, e)
        \/ withSpanFinish(f)
        \/ withSpanSettle(f)

SpecHandle == InitSpan /\ [][NextHandle]_vars

\* Two interleaved flows that nest withSpan calls.
NextNest ==
    \E f \in Flows :
        \/ withSpan(f)
        \/ FnAwait(f)
        \/ FnReturn(f)
        \/ FnThrow(f, ErrDbDown)
        \/ withSpanFinish(f)
        \/ withSpanSettle(f)

SpecNest == InitSpan /\ [][NextNest]_vars

\* The helpers that look up the active span and act on it.
SpanHelpers == {"addSpanAttribute", "addSpanAttributes", "addSpanEvent",
                "recordException", "setSpanStatus"}

\* const span = getCurrentSpan(); if (span) { span.<method>(...) }
ApplyHelperMutant(all, span, op) ==
    [i \in 1..Len(all) |-> [all[i] EXCEPT !.events = @ \cup {op}]]

ApplyHelper(all, span, op) ==
    IF span = NoSpan THEN all
    ELSE [all EXCEPT ![span] =
             CASE op = "addSpanAttribute" ->
                      [@ EXCEPT !.attrs = Merge(@, [k \in {"user.id"} |-> "u-1"])]
               [] op = "addSpanAttributes" ->
                      [@ EXCEPT !.attrs = Merge(@, [k \in {"order.id", "order.total"} |->
                                                        IF k = "order.id" THEN "o-1" ELSE "99"])]
               [] op = "addSpanEvent" -> [@ EXCEPT !.events = @ \cup {"email.sent"}]
               [] op = "recordException" -> [@ EXCEPT !.exceptions = @ \cup {ErrDbDown}]
               [] OTHER -> [@ EXCEPT !.status = "ERROR", !.message = "Payment failed"]]

\* Code of flow f, inside a fn or outside every withSpan, calls a helper.
SpanHelper(f, op) ==
    /\ InFn(f) \/ stack[f] = << >>
    /\ Len(helped[f]) < MaxHelperCalls
    /\ spans' = ApplyHelper(spans, getCurrentSpan(f), op)
    /\ helped' = [helped EXCEPT ![f] = Append(@, [op |-> op, span |-> getCurrentSpan(f)])]
    /\ UNCHANGED <<stack, active, als, outcome, seen, after, callerId, msg, idgen,
                   http, logs, busOptions, bag, tracer>>

\* Flow A nests withSpan calls and calls the helpers, inside and outside
\* them, while flow B is inside withSpan calls of its own.
NextUtils ==
    \/ withSpan("B")
    \/ \E f \in {"A"} :
          \/ withSpan(f)
          \/ \E op \in SpanHelpers : SpanHelper(f, op)
          \/ FnReturn(f)
          \/ withSpanFinish(f)
          \/ withSpanSettle(f)

SpecUtils == InitSpan /\ [][NextUtils]_vars

-----------------------------------------------------------------------------
(* The ambient trace context (core/trace-context) *)

\* getCurrentTraceContext(): the Identity of the innermost scope of the calling
\* flow; the empty Identity, never null, where none was established.
getCurrentTraceContext(f) ==
    IF als[f] = << >> THEN EmptyContext ELSE Last(als[f])

\* runWithTraceContext(context, fn): context is the Identity of a new scope
\* that lasts as long as fn and its continuations.
runWithTraceContext(scopes, context) == Append(scopes, context)

\* ... and the previously active Identity is active again afterwards.
RestoreTraceContext(scopes) == Front(scopes)

\* setTraceContext(context): merges the given fields into the Identity of the
\* calling scope; no new scope.
setTraceContext(scopes, context) ==
    [scopes EXCEPT ![Len(scopes)] = [k \in Fields |->
        IF k \in DOMAIN context THEN context[k] ELSE @[k]]]

\* generateCorrelationId(): the n-th id generated; ids never repeat.
GenIds == <<"gen-1", "gen-2", "gen-3", "gen-4">>

generateCorrelationId(n) == GenIds[n]

Generated == {GenIds[n] : n \in 1..Len(GenIds)}

\* A carrier's value for a key; absent keys read as undefined.
Prop(carrier, k) == IF k \in DOMAIN carrier THEN carrier[k] ELSE Unset

\* extractTraceFromServiceBusMessage(properties): the Identity fields the
\* application properties carry; absent ones stay unset.
BusKeys == {"correlationId", "traceId", "eventId", "eventType", "userId"}

extractTraceFromServiceBusMessage(props) ==
    [k \in Fields |-> IF k \in BusKeys THEN Prop(props, k) ELSE Unset]

-----------------------------------------------------------------------------
(* The Service Bus consumer adapter (service-bus/index) *)

\* Application properties of the messages received; MsgNone is those of a
\* message without any (message.applicationProperties || {}).
MsgNone == NoAttrs
MsgUser == [correlationId |-> "c-1", eventType |-> "user.created", traceId |-> "t-1"]
MsgOrder == [eventType |-> "order.paid", eventId |-> "e-2", userId |-> "u-2"]

Messages == {MsgNone, MsgUser, MsgOrder}

\* The Identity of a caller that established one before the call.
CallerContext == [EmptyContext EXCEPT !.correlationId = "caller", !.userId = "u-0"]

\* withServiceBusTracing: extract the trace context and generate a
\* correlation id if the message has none.
TraceContextOfMutant(props, gen) ==
    [extractTraceFromServiceBusMessage(props) EXCEPT !.correlationId = gen]

TraceContextOfDefaultMutant(props, gen) ==
    LET traceContext == extractTraceFromServiceBusMessage(props)
    IN [k \in DOMAIN traceContext |->
           IF traceContext[k] = Unset /\ k \in {"correlationId", "traceId"}
           THEN gen ELSE traceContext[k]]

TraceContextOf(props, gen) ==
    LET traceContext == extractTraceFromServiceBusMessage(props)
    IN IF traceContext.correlationId = Unset
       THEN [traceContext EXCEPT !.correlationId = gen]
       ELSE traceContext

\* withServiceBusTracing: the default span name.
ConsumeSpanName(traceContext) ==
    IF traceContext.eventType = Unset
    THEN <<"consume", "message">>
    ELSE <<"consume", traceContext.eventType>>

\* What a spanName function of the examples returns for a message.
SpanNameFn(props) == <<"handle", Prop(props, "eventType")>>

\* The spanName options: absent, the empty string, a string, a function.
BusOptions ==
    {[spanName |-> n] :
        n \in {NoSpanName,
                [type |-> "string", value |-> << >>],
                [type |-> "string", value |-> <<"process-order">>],
                [type |-> "function", value |-> << >>]}}

\* withServiceBusTracing: the span name.
SpanNameMutant(options, props, traceContext) ==
    IF options.spanName.type = "function" THEN SpanNameFn(props)
    ELSE IF options.spanName.type = "string" THEN options.spanName.value
    ELSE ConsumeSpanName(traceContext)

SpanName(options, props, traceContext) ==
    IF options.spanName.type = "function" THEN SpanNameFn(props)
    ELSE IF options.spanName.value # << >> THEN options.spanName.value
    ELSE ConsumeSpanName(traceContext)

\* withServiceBusTracing: the context the handler is called with.
HandlerContextMutant(traceContext, props) ==
    [k \in BusKeys |-> Prop(props, k)]

HandlerContext(traceContext, props) ==
    [correlationId |-> traceContext.correlationId,
     traceId |-> traceContext.traceId,
     eventId |-> traceContext.eventId,
     eventType |-> traceContext.eventType,
     userId |-> traceContext.userId]

\* withServiceBusTracing: the attributes set on the CONSUMER span.
ConsumeAttributes(traceContext) ==
    LET ids == [k \in {"correlationId", "eventId", "eventType", "userId"} |->
                   traceContext[k]]
        key == [correlationId |-> "correlation.id", eventId |-> "event.id",
                eventType |-> "event.type", userId |-> "user.id"]
        set == {k \in DOMAIN ids : ids[k] # Unset}
    IN Merge([k \in {"messaging.system", "messaging.operation"} |->
                 IF k = "messaging.system" THEN "servicebus" ELSE "receive"],
             [a \in {key[k] : k \in set} |->
                 ids[CHOOSE k \in set : key[k] = a]])

\* withServiceBusTracing: the handler runs in a scope of its own.
HandlerScopeMutant(scopes, traceContext) ==
    runWithTraceContext(setTraceContext(scopes, traceContext), traceContext)

HandlerScope(scopes, traceContext) == runWithTraceContext(scopes, traceContext)

\* The wrapped handler is called with a message: everything up to the first
\* suspension point of the handler.
withServiceBusTracing(f) ==
    /\ stack[f] = << >>
    /\ outcome[f].state = "idle"
    /\ Len(spans) < MaxSpans
    /\ LET needsId == Prop(msg[f], "correlationId") = Unset
           traceContext == TraceContextOf(msg[f], generateCorrelationId(idgen + 1))
           id == Len(spans) + 1
       IN /\ idgen' = IF needsId THEN idgen + 1 ELSE idgen
          /\ als' = [als EXCEPT ![f] = HandlerScope(@, traceContext)]
          /\ spans' = Append(spans,
                          NewSpan(f, SpanName(busOptions[f], msg[f], traceContext),
                                  "CONSUMER",
                                  ConsumeAttributes(traceContext),
                                  getCurrentSpan(f), EnclosingSpan(stack[f])))
          /\ stack' = [stack EXCEPT ![f] =
                          <<Frame("runWith", NoSpan, active[f]),
                            [Frame("withSpan", id, active[f]) EXCEPT
                                !.arg = HandlerContext(traceContext, msg[f])]>>]
          /\ active' = [active EXCEPT ![f] = Activate(@, id)]
    /\ outcome' = [outcome EXCEPT ![f].state = "pending"]
    /\ UNCHANGED <<seen, after, callerId, msg, http, logs, busOptions, bag, tracer, helped>>

\* Code of the flow reads the ambient Identity.
FnRead(f) ==
    /\ InFn(f)
    /\ LET obs == [context |-> getCurrentTraceContext(f), awaited |-> Top(f).awaited]
       IN /\ obs \notin seen[f]
          /\ seen' = [seen EXCEPT ![f] = @ \cup {obs}]
    /\ UNCHANGED <<spans, stack, active, als, outcome, after, callerId, msg, idgen, http, logs, busOptions, bag, tracer, helped>>

\* runWithTraceContext's callback has settled: the scope ends and the wrapped
\* handler's promise settles.
runWithTraceContextExit(f) ==
    /\ stack[f] # << >>
    /\ Top(f).kind = "runWith"
    /\ Top(f).pc \in {"returned", "threw"}
    /\ als' = [als EXCEPT ![f] = RestoreTraceContext(@)]
    /\ stack' = [stack EXCEPT ![f] = Front(@)]
    /\ outcome' = [outcome EXCEPT ![f] = Settled(Top(f).pc = "threw", Top(f).err)]
    /\ UNCHANGED <<spans, active, seen, after, callerId, msg, idgen, http, logs, busOptions, bag, tracer, helped>>

\* The caller of the wrapped handler reads the ambient Identity after the
\* handler's promise has settled.
CallerRead(f) ==
    /\ outcome[f].state \in {"resolved", "rejected"}
    /\ after[f] = {}
    /\ after' = [after EXCEPT ![f] = {getCurrentTraceContext(f)}]
    /\ UNCHANGED <<spans, stack, active, als, outcome, seen, callerId, msg, idgen, http, logs, busOptions, bag, tracer, helped>>

InitBus ==
    /\ spans = << >>
    /\ stack = [f \in Flows |-> << >>]
    /\ active = [f \in Flows |-> NoSpan]
    /\ callerId \in [Flows -> {EmptyContext, CallerContext}]
    /\ als = [f \in Flows |-> <<callerId[f]>>]
    /\ outcome = [f \in Flows |-> Idle]
    /\ seen = [f \in Flows |-> {}]
    /\ after = [f \in Flows |-> {}]
    /\ msg \in [Flows -> Messages]
    /\ idgen = 0
    /\ http = [f \in Flows |-> NoRequest]
    /\ logs = {}
    /\ busOptions = [f \in Flows |-> DefaultBusOptions]
    /\ bag = [f \in Flows |-> NewBag(NoAttrs)]
    /\ tracer = NoTracer
    /\ helped = [f \in Flows |-> << >>]

\* Two messages handled interleaved on one worker.
NextBus ==
    \E f \in Flows :
        \/ withServiceBusTracing(f)
        \/ FnAwait(f)
        \/ FnRead(f)
        \/ FnReturn(f)
        \/ FnThrow(f, ErrDbDown)
        \/ withSpanFinish(f)
        \/ withSpanSettle(f)
        \/ runWithTraceContextExit(f)
        \/ CallerRead(f)

SpecBus == InitBus /\ [][NextBus]_vars

\* One message handled by a handler wrapped with each kind of spanName option.
InitBusOptions ==
    /\ spans = << >>
    /\ stack = [f \in Flows |-> << >>]
    /\ active = [f \in Flows |-> NoSpan]
    /\ \E c \in {EmptyContext, CallerContext} : callerId = [f \in Flows |-> c]
    /\ als = [f \in Flows |-> <<callerId[f]>>]
    /\ outcome = [f \in Flows |-> Idle]
    /\ seen = [f \in Flows |-> {}]
    /\ after = [f \in Flows |-> {}]
    /\ \E m \in Messages : msg = [f \in Flows |-> m]
    /\ idgen = 0
    /\ http = [f \in Flows |-> NoRequest]
    /\ logs = {}
    /\ \E o \in BusOptions : busOptions = [f \in Flows |-> o]
    /\ bag = [f \in Flows |-> NewBag(NoAttrs)]
    /\ tracer = NoTracer
    /\ helped = [f \in Flows |-> << >>]

NextBusOptions ==
    \E f \in {"A"} :
        \/ withServiceBusTracing(f)
        \/ FnAwait(f)
        \/ FnRead(f)
        \/ FnReturn(f)
        \/ \E e \in Thrown : FnThrow(f, e)
        \/ withSpanFinish(f)
        \/ withSpanSettle(f)
        \/ runWithTraceContextExit(f)
        \/ CallerRead(f)

SpecBusOptions == InitBusOptions /\ [][NextBusOptions]_vars

-----------------------------------------------------------------------------
(* The Service Bus producer adapter (service-bus/index) *)

\* injectTraceIntoServiceBusMessage(properties): writes the fields of the
\* active Identity that are set into the bag; every other key stays.
InjectKeys == {"traceId", "correlationId", "eventId", "eventType"}

injectTraceIntoServiceBusMessageMutant(props, context) ==
    Merge(props, [k \in InjectKeys |-> context[k]])

injectTraceIntoServiceBusMessage(props, context) ==
    Merge(props, [k \in {x \in InjectKeys : context[x] # Unset} |-> context[k]])

\* Property bags a caller hands over: empty, with event fields of its own,
\* with a key no Identity field covers and a correlation id of its own.
BagEmpty == NoAttrs
BagEvent == [eventType |-> "user.created", eventId |-> "e-9"]
BagTenant == [tenant |-> "acme", correlationId |-> "c-old"]

Bags == {BagEmpty, BagEvent, BagTenant}

\* Span names a caller passes.
PublishNames == {<<"publish", "user.created">>, <<"publish">>}

\* withServiceBusProducerTracing: the options it passes to withSpan.
ProducerOptionsMutant == [kind |-> "INTERNAL"]

ProducerOptions == [kind |-> "PRODUCER"]

\* withServiceBusProducerTracing: the injection into the caller's bag.
ProducerInjectMutant(props, context) == props

ProducerInjectFreshMutant(props, context) ==
    injectTraceIntoServiceBusMessage(NoAttrs, context)

ProducerInject(props, context) == injectTraceIntoServiceBusMessage(props, context)

OrUnknown(v) == IF v = Unset THEN "unknown" ELSE v

\* withServiceBusProducerTracing: the attributes set on the PRODUCER span.
ProducerAttributes(props) ==
    Merge([k \in {"messaging.system", "messaging.operation",
                  "messaging.message.id", "event.type"} |->
              CASE k = "messaging.system" -> "servicebus"
                [] k = "messaging.operation" -> "publish"
                [] k = "messaging.message.id" -> OrUnknown(Prop(props, "eventId"))
                [] OTHER -> OrUnknown(Prop(props, "eventType"))],
          IF Prop(props, "correlationId") # Unset
          THEN [k \in {"correlation.id"} |-> props["correlationId"]]
          ELSE NoAttrs)

\* withServiceBusProducerTracing(messageProperties, spanName) up to its
\* await: withSpan starts the span and runs fn, which has no suspension
\* point of its own: it injects, sets the attributes and returns.
withServiceBusProducerTracing(f, name) ==
    /\ Len(spans) < MaxSpans
    /\ \/ stack[f] = << >> /\ outcome[f].state = "idle"
       \/ InFn(f)
    /\ LET id == Len(spans) + 1
           context == getCurrentTraceContext(f)
           props == ProducerInject(bag[f].props, context)
           span == NewSpan(f, name, ProducerOptions.kind, NoAttrs,
                           getCurrentSpan(f), EnclosingSpan(stack[f]))
       IN /\ spans' = Append(spans, [span EXCEPT !.attrs = ProducerAttributes(props),
                                                 !.fnOut = "returned"])
          /\ stack' = [stack EXCEPT ![f] =
                          Append(@, [Frame("withSpan", id, active[f]) EXCEPT
                                        !.pc = "returned"])]
          /\ active' = [active EXCEPT ![f] = Activate(@, id)]
          /\ bag' = [bag EXCEPT ![f].props = props,
                                ![f].injections =
                                    Append(@, [span |-> id, name |-> name,
                                               active |-> Activate(active[f], id),
                                               ends |-> span.ends,
                                               context |-> context])]
    /\ outcome' = [outcome EXCEPT ![f].state = "pending"]
    /\ UNCHANGED <<als, seen, after, callerId, msg, idgen, http, logs, busOptions, tracer, helped>>

\* The caller sends the message once withServiceBusProducerTracing's promise
\* has resolved.
Send(f) ==
    /\ bag[f].injections # << >>
    /\ spans[Last(bag[f].injections).span].promise = "resolved"
    /\ bag[f].sent = {}
    /\ bag' = [bag EXCEPT ![f].sent = {[props |-> bag[f].props,
                                         call |-> Len(bag[f].injections)]}]
    /\ UNCHANGED <<spans, stack, active, als, outcome, seen, after, callerId, msg,
                   idgen, http, logs, busOptions, tracer, helped>>

\* A flow that publishes: from inside a message handler, at any depth of
\* awaits, or from a caller outside any handler.
InitProducer ==
    /\ spans = << >>
    /\ stack = [f \in Flows |-> << >>]
    /\ active = [f \in Flows |-> NoSpan]
    /\ \E c \in {EmptyContext, CallerContext} : callerId = [f \in Flows |-> c]
    /\ als = [f \in Flows |-> <<callerId[f]>>]
    /\ outcome = [f \in Flows |-> Idle]
    /\ seen = [f \in Flows |-> {}]
    /\ after = [f \in Flows |-> {}]
    /\ \E m \in Messages : msg = [f \in Flows |-> m]
    /\ idgen = 0
    /\ http = [f \in Flows |-> NoRequest]
    /\ logs = {}
    /\ busOptions = [f \in Flows |-> DefaultBusOptions]
    /\ \E b \in Bags : bag = [f \in Flows |-> NewBag(b)]
    /\ tracer = NoTracer
    /\ helped = [f \in Flows |-> << >>]

NextProducer ==
    \E f \in {"A"} :
        \/ withServiceBusTracing(f)
        \/ FnAwait(f)
        \/ \E name \in PublishNames : withServiceBusProducerTracing(f, name)
        \/ FnReturn(f)
        \/ FnThrow(f, ErrDbDown)
        \/ withSpanFinish(f)
        \/ withSpanSettle(f)
        \/ runWithTraceContextExit(f)
        \/ Send(f)

SpecProducer == InitProducer /\ [][NextProducer]_vars

\* Every property bag over the message carrier's keys and a key of the
\* sender's own; the value under key k is "v-" followed by k.
CarrierKeys == BusKeys \cup {"tenant"}

ValueOf == [correlationId |-> "v-correlationId", traceId |-> "v-traceId",
            eventId |-> "v-eventId", eventType |-> "v-eventType",
            userId |-> "v-userId", tenant |-> "v-tenant"]

CodecBags == {[k \in keys |-> ValueOf[k]] : keys \in SUBSET CarrierKeys}

\* The codec applied to a bag: extract ...
CodecExtract(f) ==
    /\ Len(als[f]) = 1
    /\ als' = [als EXCEPT ![f] =
                  runWithTraceContext(@, extractTraceFromServiceBusMessage(msg[f]))]
    /\ UNCHANGED <<spans, stack, active, outcome, seen, after, callerId, msg, idgen,
                   http, logs, busOptions, bag, tracer, helped>>

\* ... and, with the extracted Identity active, inject into an empty bag.
CodecInject(f) ==
    /\ Len(als[f]) = 2
    /\ bag[f].injections = << >>
    /\ LET context == getCurrentTraceContext(f)
       IN bag' = [bag EXCEPT ![f].props = injectTraceIntoServiceBusMessage(@, context),
                             ![f].injections =
                                 <<[span |-> NoSpan, name |-> << >>, active |-> active[f],
                                    ends |-> 0, context |-> context]>>]
    /\ UNCHANGED <<spans, stack, active, als, outcome, seen, after, callerId, msg,
                   idgen, http, logs, busOptions, tracer, helped>>

InitCodec ==
    /\ spans = << >>
    /\ stack = [f \in Flows |-> << >>]
    /\ active = [f \in Flows |-> NoSpan]
    /\ callerId = [f \in Flows |-> EmptyContext]
    /\ als = [f \in Flows |-> <<callerId[f]>>]
    /\ outcome = [f \in Flows |-> Idle]
    /\ seen = [f \in Flows |-> {}]
    /\ after = [f \in Flows |-> {}]
    /\ \E m \in CodecBags : msg = [f \in Flows |-> m]
    /\ idgen = 0
    /\ http = [f \in Flows |-> NoRequest]
    /\ logs = {}
    /\ busOptions = [f \in Flows |-> DefaultBusOptions]
    /\ bag = [f \in Flows |-> NewBag(BagEmpty)]
    /\ tracer = NoTracer
    /\ helped = [f \in Flows |-> << >>]

NextCodec ==
    \E f \in {"A"} :
        \/ CodecExtract(f)
        \/ CodecInject(f)

SpecCodec == InitCodec /\ [][NextCodec]_vars

-----------------------------------------------------------------------------
(* The tracer (core/tracer) *)

\* config.disabled ?? process.env.OTEL_SDK_DISABLED === 'true'
Disabled(configDisabled, envDisabled) ==
    IF configDisabled = Unset THEN envDisabled ELSE configDisabled = "true"

\* initTracing(config): nothing if disabled, nothing if already initialized;
\* otherwise a new SDK is created, stored in sdk and started.
initTracing(configDisabled) ==
    /\ Len(tracer.sdks) < MaxSdks
    /\ LET disabled == Disabled(configDisabled, tracer.envDisabled)
           creates == ~disabled /\ ~tracer.isInitialized
           call == [op |-> "initTracing", disabled |-> disabled,
                    wasInitialized |-> tracer.isInitialized,
                    created |-> creates,
                    isInitialized |-> tracer.isInitialized \/ creates]
       IN /\ call # tracer.last \/ creates
          /\ tracer' = IF creates
                       THEN [tracer EXCEPT !.sdks = Append(@, "started"),
                                           !.sdk = Len(tracer.sdks) + 1,
                                           !.isInitialized = TRUE,
                                           !.last = call]
                       ELSE [tracer EXCEPT !.last = call]
    /\ UNCHANGED <<spans, stack, active, als, outcome, seen, after, callerId, msg,
                   idgen, http, logs, busOptions, bag, helped>>

\* shutdownTracing() up to its await: sdk.shutdown() is called if there is an
\* SDK and tracing is initialized.
shutdownTracing ==
    /\ tracer.sdk # 0 /\ tracer.isInitialized
    /\ Len(tracer.pending) < MaxPending
    /\ tracer' = [tracer EXCEPT !.pending = Append(@, tracer.sdk)]
    /\ UNCHANGED <<spans, stack, active, als, outcome, seen, after, callerId, msg,
                   idgen, http, logs, busOptions, bag, helped>>

\* shutdownTracing() where there is no SDK or tracing is not initialized:
\* the call resolves at once and nothing is shut down.
shutdownTracingSkip ==
    /\ ~(tracer.sdk # 0 /\ tracer.isInitialized)
    /\ tracer.settled # "skipped"
    /\ tracer' = [tracer EXCEPT !.settled = "skipped"]
    /\ UNCHANGED <<spans, stack, active, als, outcome, seen, after, callerId, msg,
                   idgen, http, logs, busOptions, bag, helped>>

\* The calls in flight without the n-th.
Without(calls, n) ==
    [i \in 1..(Len(calls) - 1) |-> IF i < n THEN calls[i] ELSE calls[i + 1]]

\* sdk.shutdown() resolved: the call resumes and clears isInitialized.
shutdownTracingResume(n) ==
    /\ n \in 1..Len(tracer.pending)
    /\ tracer' = [tracer EXCEPT !.sdks[tracer.pending[n]] = "shutdown",
                                !.isInitialized = FALSE,
                                !.pending = Without(@, n),
                                !.settled = "resolved"]
    /\ UNCHANGED <<spans, stack, active, als, outcome, seen, after, callerId, msg,
                   idgen, http, logs, busOptions, bag, helped>>

\* The tracer after the catch block of the n-th call in flight: the error is
\* logged and rethrown, sdk and isInitialized are left as they are.
ShutdownFailedMutant(t, n) ==
    [t EXCEPT !.pending = Without(@, n), !.settled = "rejected",
              !.isInitialized = FALSE]

ShutdownFailed(t, n) ==
    [t EXCEPT !.pending = Without(@, n), !.settled = "rejected"]

\* sdk.shutdown() rejected: shutdownTracing rejects with the error.
shutdownTracingFail(n) ==
    /\ n \in 1..Len(tracer.pending)
    /\ tracer' = ShutdownFailed(tracer, n)
    /\ UNCHANGED <<spans, stack, active, als, outcome, seen, after, callerId, msg,
                   idgen, http, logs, busOptions, bag, helped>>

\* A process that calls initTracing and shutdownTracing in any order, with
\* OTEL_SDK_DISABLED set or not.
InitTracer ==
    /\ spans = << >>
    /\ stack = [f \in Flows |-> << >>]
    /\ active = [f \in Flows |-> NoSpan]
    /\ callerId = [f \in Flows |-> EmptyContext]
    /\ als = [f \in Flows |-> << >>]
    /\ outcome = [f \in Flows |-> Idle]
    /\ seen = [f \in Flows |-> {}]
    /\ after = [f \in Flows |-> {}]
    /\ msg = [f \in Flows |-> NoAttrs]
    /\ idgen = 0
    /\ http = [f \in Flows |-> NoRequest]
    /\ logs = {}
    /\ busOptions = [f \in Flows |-> DefaultBusOptions]
    /\ bag = [f \in Flows |-> NewBag(NoAttrs)]
    /\ \E envDisabled \in BOOLEAN : tracer = NewTracer(envDisabled)
    /\ helped = [f \in Flows |-> << >>]

NextTracer ==
    \/ \E configDisabled \in {"true", "false", Unset} : initTracing(configDisabled)
    \/ shutdownTracing
    \/ shutdownTracingSkip
    \/ \E n \in 1..MaxPending : shutdownTracingResume(n)
    \/ \E n \in 1..MaxPending : shutdownTracingFail(n)

SpecTracer == InitTracer /\ [][NextTracer]_vars

-----------------------------------------------------------------------------
(* The logger mixin (logger/index) *)

\* createLogger's mixin: the fields of the current trace context that are set.
mixinMutant(traceContext) == traceContext

mixin(traceContext) ==
    [k \in {x \in Fields : traceContext[x] # Unset} |-> traceContext[k]]

\* The trace context the mixin works on: the one current when the mixin runs,
\* at the emission, not the one current when createLogger ran.
MixinContextMutant(current, created) == created

MixinContext(current, created) == current

\* Code of flow f, the wrapped handler or its caller, emits a log record with
\* a logger created at module load, where no Identity was established.
LogEmit(f) ==
    /\ InFn(f) \/ stack[f] = << >>
    /\ LET current == getCurrentTraceContext(f)
           rec == [flow |-> f,
                   scope |-> IF InFn(f) THEN "handler" ELSE "caller",
                   at |-> current,
                   record |-> mixin(MixinContext(current, EmptyContext))]
       IN /\ rec \notin logs
          /\ logs' = logs \cup {rec}
    /\ UNCHANGED <<spans, stack, active, als, outcome, seen, after, callerId, msg,
                   idgen, http, busOptions, bag, tracer, helped>>

\* Two messages handled interleaved on one worker, the handlers and their
\* callers logging with one logger.
InitLog ==
    /\ spans = << >>
    /\ stack = [f \in Flows |-> << >>]
    /\ active = [f \in Flows |-> NoSpan]
    /\ callerId \in [Flows -> {EmptyContext, CallerContext}]
    /\ als = [f \in Flows |-> <<callerId[f]>>]
    /\ outcome = [f \in Flows |-> Idle]
    /\ seen = [f \in Flows |-> {}]
    /\ after = [f \in Flows |-> {}]
    /\ msg \in [Flows -> Messages]
    /\ idgen = 0
    /\ http = [f \in Flows |-> NoRequest]
    /\ logs = {}
    /\ busOptions = [f \in Flows |-> DefaultBusOptions]
    /\ bag = [f \in Flows |-> NewBag(NoAttrs)]
    /\ tracer = NoTracer
    /\ helped = [f \in Flows |-> << >>]

NextLog ==
    \E f \in Flows :
        \/ withServiceBusTracing(f)
        \/ FnAwait(f)
        \/ LogEmit(f)
        \/ FnReturn(f)
        \/ withSpanFinish(f)
        \/ withSpanSettle(f)
        \/ runWithTraceContextExit(f)

SpecLog == InitLog /\ [][NextLog]_vars

-----------------------------------------------------------------------------
(* The Express middleware (http/express) *)

\* A traceparent header is the list of its '-'-separated fields; an absent
\* header is the empty list.
TraceIdA == "4bf92f3577b34da6a3ce929d0e0e4736"
TraceIdZero == "00000000000000000000000000000000"
TraceparentValid == <<"00", TraceIdA, "00f067aa0ba902b7", "01">>
TraceparentShort == <<"00", TraceIdA>>
NoHeader == << >>

\* The strings of n hexadecimal digits among the field values used here.
Hex == [n \in {2, 16, 32} |->
           CASE n = 2 -> {"00", "01"}
             [] n = 16 -> {"00f067aa0ba902b7"}
             [] OTHER -> {TraceIdA, TraceIdZero}]

\* Field values that are no such strings: too short, or not hexadecimal.
BadFields == [version |-> {"0", "zz"},
              traceId |-> {"4bf92f35", "4bf92f3577b34da6a3ce929d0e0eXYZW"},
              parentId |-> {"00f067aa"},
              flags |-> {"1"}]

\* extractTraceIdFromTraceparent(header): the trace id of a header of the
\* form version-traceid-parentid-flags whose trace id is not the all-zero
\* one; nothing for any other header, and for an absent one.
extractTraceIdFromTraceparentMutant(header) ==
    IF Len(header) < 2 THEN Unset ELSE header[2]

extractTraceIdFromTraceparent(header) ==
    IF Len(header) # 4 THEN Unset
    ELSE IF header[1] \notin Hex[2] THEN Unset
    ELSE IF header[2] \notin Hex[32] \/ header[2] = TraceIdZero THEN Unset
    ELSE IF header[3] \notin Hex[16] \/ header[4] \notin Hex[2] THEN Unset
    ELSE header[2]

\* Headers a request can carry: none, every four-field header over the field
\* values above, and headers with too few or too many fields.
Traceparents ==
    {NoHeader, TraceparentShort, TraceparentValid \o <<"extra">>}
    \cup {<<v, t, p, g>> : v \in Hex[2] \cup BadFields.version,
                          t \in Hex[32] \cup BadFields.traceId,
                          p \in Hex[16] \cup BadFields.parentId,
                          g \in Hex[2] \cup BadFields.flags}

\* extractCorrelationId(headers): the correlation id header of the request.
extractCorrelationId(headers) == Prop(headers, "x-correlation-id")

\* Requests: nothing to extract; everything present; a malformed traceparent.
ReqPlain == [method |-> "GET", path |-> "/api/health", headers |-> NoAttrs,
             traceparent |-> NoHeader, user |-> Unset]
ReqFull == [method |-> "GET", path |-> "/api/users/1",
            headers |-> [k \in {"x-correlation-id"} |-> "c-1"],
            traceparent |-> TraceparentValid, user |-> "u-1"]
ReqBad == [method |-> "POST", path |-> "/api/users", headers |-> NoAttrs,
           traceparent |-> TraceparentShort, user |-> "u-2"]

Requests == {ReqPlain, ReqFull, ReqBad}

\* Requests that carry an x-request-id of their own, and a correlation id
\* under another header name.
ReqInbound == [method |-> "GET", path |-> "/api/users/2",
               headers |-> [k \in {"x-correlation-id", "x-request-id"} |->
                               IF k = "x-correlation-id" THEN "c-2" ELSE "r-in"],
               traceparent |-> NoHeader, user |-> Unset]
ReqInboundOnly == [method |-> "GET", path |-> "/api/users/3",
                   headers |-> [k \in {"x-request-id"} |-> "r-in"],
                   traceparent |-> TraceparentValid, user |-> "u-3"]
ReqCustom == [method |-> "GET", path |-> "/api/users/4",
              headers |-> [k \in {"x-trace-correlation"} |-> "c-9"],
              traceparent |-> TraceparentValid, user |-> Unset]

AllRequests == Requests \cup {ReqInbound, ReqInboundOnly, ReqCustom}

\* createTracingMiddleware's options: the defaults, with a user id hook.
DefaultOptions ==
    [correlationIdHeader |-> "x-correlation-id",
     generateCorrelationId |-> TRUE,
     addCorrelationIdToResponse |-> TRUE,
     addTraceIdToResponse |-> TRUE,
     extractUserId |-> TRUE]

\* Every configuration of the middleware over two header names.
TracingMiddlewareOptions ==
    [correlationIdHeader : {"x-correlation-id", "x-trace-correlation"},
     generateCorrelationId : BOOLEAN,
     addCorrelationIdToResponse : BOOLEAN,
     addTraceIdToResponse : BOOLEAN,
     extractUserId : BOOLEAN]

\* Errors a route handler passes to next(err); statusCode 0 is an absent one.
NoHttpErr == [name |-> "none", message |-> Unset, statusCode |-> 0]
HttpErrDown == [name |-> "Error", message |-> "db down", statusCode |-> 0]
HttpErrMissing == [name |-> "NotFoundError", message |-> "no such user",
                   statusCode |-> 404]

HttpErrors == {HttpErrDown, HttpErrMissing}

\* createErrorMiddleware's options; a logger and formatError are given or
\* not. The default of includeStack is that of a production environment.
DefaultErrorOptions ==
    [logErrors |-> TRUE, includeStack |-> FALSE, formatError |-> FALSE,
     logger |-> FALSE]

ErrorMiddlewareOptions ==
    [logErrors : BOOLEAN, includeStack : BOOLEAN, formatError : BOOLEAN,
     logger : BOOLEAN]

\* An HTTP request as it reaches the application.
NewRequest(req, traced) ==
    [pc |-> IF traced THEN "middleware" ELSE "handler",
     traced |-> traced,         \* the app uses createTracingMiddleware
     options |-> DefaultOptions,
     req |-> req,
     awaited |-> FALSE,         \* the running handler has passed a suspension point
     listening |-> FALSE,       \* the 'finish' listener is registered
     resHeaders |-> NoAttrs,
     calls |-> << >>,           \* what the tracing middleware called, in order
     status |-> 0,              \* res.statusCode once the response is sent
     body |-> NoAttrs,
     err |-> NoHttpErr,
     errOptions |-> DefaultErrorOptions,
     errCalls |-> << >>,        \* what the error middleware called on res and next
     errorLogged |-> "none",    \* where the error middleware logged the error
     fn |-> [out |-> "none",    \* how the fn given to asyncHandler completed,
             value |-> NoHttpErr,   \* what it threw or rejected with,
             next |-> << >>]]   \* and what asyncHandler passed to next()

\* addSpanAttributes(attributes): on the active span, if any.
addSpanAttributes(all, span, attributes) ==
    IF span = NoSpan THEN all
    ELSE [all EXCEPT ![span].attrs = Merge(@, attributes)]

\* setSpanStatus(status, message): on the active span, if any.
WriteStatus(all, span, code, message) ==
    IF span = NoSpan THEN all
    ELSE [all EXCEPT ![span].status = code, ![span].message = message]

\* recordException(error): on the active span, if any.
RecordException(all, span, e) ==
    IF span = NoSpan THEN all
    ELSE [all EXCEPT ![span].exceptions = @ \cup {e}]

\* The fields the middleware passes to setTraceContext.
MiddlewareContextMutant(correlationId, traceId, userId, requestId) ==
    [correlationId |-> correlationId, traceId |-> traceId, userId |-> userId,
     requestId |-> correlationId]

MiddlewareContext(correlationId, traceId, userId, requestId) ==
    [correlationId |-> correlationId, traceId |-> traceId, userId |-> userId,
     requestId |-> requestId]

\* A function with the one key k, or none if the condition fails.
Only(cond, k, v) == IF cond THEN [x \in {k} |-> v] ELSE NoAttrs

\* Nothing established yet: setTraceContext establishes the Identity.
Scopes(f) == IF als[f] = << >> THEN <<EmptyContext>> ELSE als[f]

\* The correlation id of a request: the extracted one; a generated one if
\* none was extracted and generation is enabled.
CorrelationIdOfMutant(found, shouldGenerate, generated) ==
    IF shouldGenerate THEN generated ELSE found

CorrelationIdOf(found, shouldGenerate, generated) ==
    IF found = Unset /\ shouldGenerate THEN generated ELSE found

\* The id the middleware installs as requestId: always a generated one.
RequestIdOfMutant(headers, generated) ==
    IF "x-request-id" \in DOMAIN headers THEN headers["x-request-id"] ELSE generated

RequestIdOf(headers, generated) == generated

Call(op, arg, value) == [op |-> op, arg |-> arg, value |-> value]

When(cond, call) == IF cond THEN <<call>> ELSE << >>

\* The res.setHeader calls of the middleware, in the order of the code.
HeaderWrites(options, correlationId, requestId, traceId) ==
    When(correlationId # Unset /\ options.addCorrelationIdToResponse,
         Call("setHeader", options.correlationIdHeader, correlationId))
    \o <<Call("setHeader", "x-request-id", requestId)>>
    \o When(traceId # Unset /\ options.addTraceIdToResponse,
            Call("setHeader", "x-trace-id", traceId))

\* The response headers after a list of setHeader calls: the last write of a
\* name wins.
ResponseHeaders(writes) ==
    [k \in {writes[i].arg : i \in 1..Len(writes)} |->
        LET last == CHOOSE i \in 1..Len(writes) :
                        /\ writes[i].arg = k
                        /\ \A j \in 1..Len(writes) : writes[j].arg = k => j <= i
        IN writes[last].value]

\* Everything the middleware calls on res and next, in the order of the code.
MiddlewareCallsMutant(writes) ==
    <<Call("next", Unset, Unset)>> \o writes \o <<Call("on", "finish", Unset)>>

MiddlewareCalls(writes) ==
    writes \o <<Call("on", "finish", Unset), Call("next", Unset, Unset)>>

\* The middleware function, from the request's arrival to next().
createTracingMiddleware(f) ==
    /\ http[f].pc = "middleware"
    /\ LET h == http[f]
           found == extractCorrelationId(h.req.headers)
           generates == found = Unset /\ h.options.generateCorrelationId
           correlationId == CorrelationIdOf(found, h.options.generateCorrelationId,
                                            generateCorrelationId(idgen + 1))
           n == IF generates THEN idgen + 1 ELSE idgen
           traceId == extractTraceIdFromTraceparent(h.req.traceparent)
           userId == IF h.options.extractUserId THEN h.req.user ELSE Unset
           requestId == RequestIdOf(h.req.headers, generateCorrelationId(n + 1))
           scopes == setTraceContext(Scopes(f),
                         MiddlewareContext(correlationId, traceId, userId, requestId))
           context == Last(scopes)
           writes == HeaderWrites(h.options, correlationId, requestId, context.traceId)
           spanAttributes ==
               Merge(Merge(Merge([k \in {"http.request.method", "http.request.path"} |->
                                     IF k = "http.request.method" THEN h.req.method
                                     ELSE h.req.path],
                                 Only(correlationId # Unset, "correlation.id", correlationId)),
                           Only(requestId # Unset, "request.id", requestId)),
                     Only(userId # Unset, "user.id", userId))
       IN /\ idgen' = n + 1
          /\ als' = [als EXCEPT ![f] = scopes]
          /\ spans' = addSpanAttributes(spans, getCurrentSpan(f), spanAttributes)
          /\ http' = [http EXCEPT ![f] =
                         [h EXCEPT !.resHeaders = Merge(@, ResponseHeaders(writes)),
                                   !.calls = MiddlewareCalls(writes),
                                   !.listening = TRUE,
                                   !.pc = "handler"]]
    /\ UNCHANGED <<stack, active, outcome, seen, after, callerId, msg, logs, busOptions, bag, tracer, helped>>

\* The route handler awaits something.
RouteAwait(f) ==
    /\ http[f].pc = "handler"
    /\ ~http[f].awaited
    /\ http' = [http EXCEPT ![f].awaited = TRUE]
    /\ UNCHANGED <<spans, stack, active, als, outcome, seen, after, callerId, msg,
                   idgen, logs, busOptions, bag, tracer, helped>>

\* The route handler reads the ambient Identity.
RouteRead(f) ==
    /\ http[f].pc = "handler"
    /\ LET obs == [context |-> getCurrentTraceContext(f), awaited |-> http[f].awaited]
       IN /\ obs \notin seen[f]
          /\ seen' = [seen EXCEPT ![f] = @ \cup {obs}]
    /\ UNCHANGED <<spans, stack, active, als, outcome, after, callerId, msg, idgen,
                   http, logs, busOptions, bag, tracer, helped>>

\* The route handler logs: the mixin runs at the emission.
RouteLog(f) ==
    /\ http[f].pc = "handler"
    /\ LET rec == [flow |-> f, record |-> mixin(getCurrentTraceContext(f))]
       IN /\ rec \notin logs
          /\ logs' = logs \cup {rec}
    /\ UNCHANGED <<spans, stack, active, als, outcome, seen, after, callerId, msg,
                   idgen, http, busOptions, bag, tracer, helped>>

\* The route handler sends the response.
RouteRespond(f, code) ==
    /\ http[f].pc = "handler"
    /\ http' = [http EXCEPT ![f].status = code, ![f].awaited = FALSE,
                            ![f].pc = "sent"]
    /\ UNCHANGED <<spans, stack, active, als, outcome, seen, after, callerId, msg,
                   idgen, logs, busOptions, bag, tracer, helped>>

\* The route handler fails: next(err).
RouteThrow(f, err) ==
    /\ http[f].pc = "handler"
    /\ http' = [http EXCEPT ![f].err = err, ![f].awaited = FALSE,
                            ![f].pc = "error"]
    /\ UNCHANGED <<spans, stack, active, als, outcome, seen, after, callerId, msg,
                   idgen, logs, busOptions, bag, tracer, helped>>

\* The default error response body.
ErrorBody(err, context) ==
    Merge([k \in {"message", "type"} |->
              IF k = "message" THEN err.message ELSE err.name],
          [k \in {x \in {"correlationId", "traceId", "requestId"} :
                      context[x] # Unset} |-> context[k]])

\* The status of the error response: err.statusCode || 500.
ErrorStatus(err) == IF err.statusCode # 0 THEN err.statusCode ELSE 500

\* What a formatError function given in the options returns.
FormatError(err, req) == [code |-> err.name, path |-> req.path]

\* The response body: formatError's result if one is given, else the default
\* body, with the stack if includeStack.
ErrorResponseMutant(options, err, req, context) ==
    Merge(ErrorBody(err, context), [k \in {"stack"} |-> <<err.name, "at route">>])

ErrorResponse(options, err, req, context) ==
    IF options.formatError THEN FormatError(err, req)
    ELSE IF options.includeStack
    THEN Merge(ErrorBody(err, context), [k \in {"stack"} |-> <<err.name, "at route">>])
    ELSE ErrorBody(err, context)

\* The error middleware function.
createErrorMiddleware(f) ==
    /\ http[f].pc = "error"
    /\ LET context == getCurrentTraceContext(f)
           err == http[f].err
           options == http[f].errOptions
           body == ErrorResponse(options, err, http[f].req, context)
       IN /\ spans' = WriteStatus(RecordException(spans, getCurrentSpan(f), err),
                                  getCurrentSpan(f), "ERROR", err.message)
          /\ http' = [http EXCEPT ![f].status = ErrorStatus(err),
                                  ![f].body = body,
                                  ![f].errorLogged =
                                      IF ~options.logErrors THEN "none"
                                      ELSE IF options.logger THEN "logger"
                                      ELSE "console",
                                  ![f].errCalls =
                                      <<Call("status", Unset, ErrorStatus(err)),
                                        Call("json", Unset, body)>>,
                                  ![f].pc = "sent"]
    /\ UNCHANGED <<stack, active, als, outcome, seen, after, callerId, msg, idgen, logs, busOptions, bag, tracer, helped>>

\* The span status the 'finish' listener writes for a status code.
FinishStatusMutant(code) == IF code >= 400 THEN "ERROR" ELSE "OK"

FinishStatus(code) == IF code >= 500 THEN "ERROR" ELSE "OK"

\* The response has been written: 'finish' fires and the listener the tracing
\* middleware registered runs.
OnFinish(f) ==
    /\ http[f].pc = "sent"
    /\ LET code == http[f].status
           span == getCurrentSpan(f)
       IN spans' = IF http[f].listening
                   THEN WriteStatus(
                            addSpanAttributes(spans, span,
                                Only(TRUE, "http.response.status_code", code)),
                            span,
                            FinishStatus(code),
                            IF code >= 500 THEN <<"HTTP", code>> ELSE Unset)
                   ELSE spans
    /\ http' = [http EXCEPT ![f].pc = "finished"]
    /\ UNCHANGED <<stack, active, als, outcome, seen, after, callerId, msg, idgen, logs, busOptions, bag, tracer, helped>>

\* The SERVER span the HTTP auto-instrumentation has active for a request.
ServerSpanOf(f) == IF f = "A" THEN 1 ELSE 2

InitHttp ==
    /\ spans = [i \in 1..2 |->
                  NewSpan(IF i = 1 THEN "A" ELSE "B", "http", "SERVER", NoAttrs,
                          NoSpan, NoSpan)]
    /\ stack = [f \in Flows |-> << >>]
    /\ active = [f \in Flows |-> ServerSpanOf(f)]
    /\ als = [f \in Flows |-> << >>]
    /\ outcome = [f \in Flows |-> Idle]
    /\ seen = [f \in Flows |-> {}]
    /\ after = [f \in Flows |-> {}]
    /\ callerId = [f \in Flows |-> EmptyContext]
    /\ msg = [f \in Flows |-> NoAttrs]
    /\ idgen = 0
    /\ \E reqs \in [Flows -> Requests], traced \in BOOLEAN :
          http = [f \in Flows |-> NewRequest(reqs[f], f = "A" \/ traced)]
    /\ logs = {}
    /\ busOptions = [f \in Flows |-> DefaultBusOptions]
    /\ bag = [f \in Flows |-> NewBag(NoAttrs)]
    /\ tracer = NoTracer
    /\ helped = [f \in Flows |-> << >>]

\* Two requests processed interleaved on one worker.
NextHttp ==
    \E f \in Flows :
        \/ createTracingMiddleware(f)
        \/ RouteAwait(f)
        \/ RouteRead(f)
        \/ RouteLog(f)
        \/ \E code \in {200, 404} : RouteRespond(f, code)
        \/ \E err \in HttpErrors : RouteThrow(f, err)
        \/ createErrorMiddleware(f)
        \/ OnFinish(f)

SpecHttp == InitHttp /\ [][NextHttp]_vars

\* Status codes a route handler answers with, around the 4xx/5xx boundaries.
StatusCodes == {200, 399, 400, 404, 499, 500, 503}

\* Two requests through one middleware instance, under every configuration.
InitMw ==
    /\ spans = [i \in 1..2 |->
                  NewSpan(IF i = 1 THEN "A" ELSE "B", "http", "SERVER", NoAttrs,
                          NoSpan, NoSpan)]
    /\ stack = [f \in Flows |-> << >>]
    /\ active = [f \in Flows |-> ServerSpanOf(f)]
    /\ als = [f \in Flows |-> << >>]
    /\ outcome = [f \in Flows |-> Idle]
    /\ seen = [f \in Flows |-> {}]
    /\ after = [f \in Flows |-> {}]
    /\ callerId = [f \in Flows |-> EmptyContext]
    /\ msg = [f \in Flows |-> NoAttrs]
    /\ idgen = 0
    /\ \E reqA \in AllRequests, reqB \in {ReqPlain, ReqInbound},
          options \in TracingMiddlewareOptions :
          http = [f \in Flows |->
                     [NewRequest(IF f = "A" THEN reqA ELSE reqB, TRUE)
                         EXCEPT !.options = options]]
    /\ logs = {}
    /\ busOptions = [f \in Flows |-> DefaultBusOptions]
    /\ bag = [f \in Flows |-> NewBag(NoAttrs)]
    /\ tracer = NoTracer
    /\ helped = [f \in Flows |-> << >>]

NextMw ==
    \E f \in Flows :
        \/ createTracingMiddleware(f)
        \/ \E code \in StatusCodes : RouteRespond(f, code)
        \/ \E err \in HttpErrors : RouteThrow(f, err)
        \/ createErrorMiddleware(f)
        \/ OnFinish(f)

SpecMw == InitMw /\ [][NextMw]_vars

\* One request whose route throws, with or without the tracing middleware,
\* answered by the error middleware under every configuration.
InitErr ==
    /\ spans = <<NewSpan("A", "http", "SERVER", NoAttrs, NoSpan, NoSpan)>>
    /\ stack = [f \in Flows |-> << >>]
    /\ active = [f \in Flows |-> IF f = "A" THEN ServerSpanOf(f) ELSE NoSpan]
    /\ callerId = [f \in Flows |-> EmptyContext]
    /\ als = [f \in Flows |-> << >>]
    /\ outcome = [f \in Flows |-> Idle]
    /\ seen = [f \in Flows |-> {}]
    /\ after = [f \in Flows |-> {}]
    /\ msg = [f \in Flows |-> NoAttrs]
    /\ idgen = 0
    /\ \E req \in {ReqPlain, ReqFull}, traced \in BOOLEAN,
          options \in ErrorMiddlewareOptions :
          http = [f \in Flows |->
                     IF f = "A"
                     THEN [NewRequest(req, traced) EXCEPT !.errOptions = options]
                     ELSE NoRequest]
    /\ logs = {}
    /\ busOptions = [f \in Flows |-> DefaultBusOptions]
    /\ bag = [f \in Flows |-> NewBag(NoAttrs)]
    /\ tracer = NoTracer
    /\ helped = [f \in Flows |-> << >>]

NextErr ==
    \E f \in {"A"} :
        \/ createTracingMiddleware(f)
        \/ \E err \in HttpErrors : RouteThrow(f, err)
        \/ createErrorMiddleware(f)
        \/ OnFinish(f)

SpecErr == InitErr /\ [][NextErr]_vars

\* The route is asyncHandler(fn) and is called: fn(req, res, next) returns a
\* promise, or throws before it returns one and the error escapes the call.
asyncHandler(f, thrown) ==
    /\ http[f].pc = "handler"
    /\ http[f].fn.out = "none"
    /\ http' = [http EXCEPT ![f].fn.out = IF thrown = NoHttpErr THEN "pending" ELSE "threw",
                            ![f].fn.value = thrown,
                            ![f].pc = IF thrown = NoHttpErr THEN "awaiting" ELSE "escaped"]
    /\ UNCHANGED <<spans, stack, active, als, outcome, seen, after, callerId, msg,
                   idgen, logs, busOptions, bag, tracer, helped>>

\* fn's promise resolves: nothing was chained for that.
AsyncResolve(f) ==
    /\ http[f].pc = "awaiting"
    /\ http' = [http EXCEPT ![f].fn.out = "resolved", ![f].pc = "resolved"]
    /\ UNCHANGED <<spans, stack, active, als, outcome, seen, after, callerId, msg,
                   idgen, logs, busOptions, bag, tracer, helped>>

\* fn's promise rejects with err.
AsyncReject(f, err) ==
    /\ http[f].pc = "awaiting"
    /\ http' = [http EXCEPT ![f].fn.out = "rejected", ![f].fn.value = err,
                            ![f].pc = "rejected"]
    /\ UNCHANGED <<spans, stack, active, als, outcome, seen, after, callerId, msg,
                   idgen, logs, busOptions, bag, tracer, helped>>

\* .catch(next): next is the rejection handler and receives the reason.
CatchArgMutant(reason) == HttpErrDown

CatchArg(reason) == reason

\* The rejection handler runs: next(err) hands the error to the error
\* middleware.
AsyncCatch(f) ==
    /\ http[f].pc = "rejected"
    /\ http' = [http EXCEPT ![f].fn.next = Append(@, CatchArg(http[f].fn.value)),
                            ![f].err = CatchArg(http[f].fn.value),
                            ![f].pc = "error"]
    /\ UNCHANGED <<spans, stack, active, als, outcome, seen, after, callerId, msg,
                   idgen, logs, busOptions, bag, tracer, helped>>

\* One request to a route wrapped in asyncHandler.
NextAsync ==
    \E f \in {"A"} :
        \/ createTracingMiddleware(f)
        \/ \E thrown \in HttpErrors \cup {NoHttpErr} : asyncHandler(f, thrown)
        \/ AsyncResolve(f)
        \/ \E err \in HttpErrors : AsyncReject(f, err)
        \/ AsyncCatch(f)
        \/ createErrorMiddleware(f)
        \/ OnFinish(f)

SpecAsync == InitErr /\ [][NextAsync]_vars

\* Carriers of every shape: flow A is a request with any of the traceparent
\* headers, flow B a message with or without application properties.
InitCarrier ==
    /\ spans = <<NewSpan("A", "http", "SERVER", NoAttrs, NoSpan, NoSpan)>>
    /\ stack = [f \in Flows |-> << >>]
    /\ active = [f \in Flows |-> IF f = "A" THEN ServerSpanOf(f) ELSE NoSpan]
    /\ callerId = [f \in Flows |-> EmptyContext]
    /\ als = [f \in Flows |-> IF f = "A" THEN << >> ELSE <<callerId[f]>>]
    /\ outcome = [f \in Flows |-> Idle]
    /\ seen = [f \in Flows |-> {}]
    /\ after = [f \in Flows |-> {}]
    /\ \E m \in Messages : msg = [f \in Flows |-> IF f = "B" THEN m ELSE NoAttrs]
    /\ idgen = 0
    /\ \E header \in Traceparents :
          http = [f \in Flows |->
                     IF f = "A"
                     THEN NewRequest([ReqPlain EXCEPT !.traceparent = header], TRUE)
                     ELSE NoRequest]
    /\ logs = {}
    /\ busOptions = [f \in Flows |-> DefaultBusOptions]
    /\ bag = [f \in Flows |-> NewBag(NoAttrs)]
    /\ tracer = NoTracer
    /\ helped = [f \in Flows |-> << >>]

NextCarrier ==
    \/ \E f \in {"A"} :
          \/ createTracingMiddleware(f)
          \/ RouteRead(f)
          \/ RouteRespond(f, 200)
          \/ OnFinish(f)
    \/ \E f \in {"B"} :
          \/ withServiceBusTracing(f)
          \/ FnRead(f)
          \/ FnReturn(f)
          \/ withSpanFinish(f)
          \/ withSpanSettle(f)
          \/ runWithTraceContextExit(f)

SpecCarrier == InitCarrier /\ [][NextCarrier]_vars

-----------------------------------------------------------------------------
(* The span lifecycle: claims C1 to C6 *)

SpanIds == 1..Len(spans)

\* C1: the span withSpan starts has end() called exactly once, and withSpan's
\* promise does not settle before that call: never twice, and once by the time
\* the promise is resolved or rejected.
C1_EndedExactlyOnce ==
    \A i \in SpanIds :
        /\ spans[i].ends <= 1
        /\ spans[i].promise # "pending" => spans[i].ends = 1
        /\ spans[i].ends = 1 => spans[i].fnOut \in {"returned", "threw"}

C1_Witness ==
    \E i, j \in SpanIds :
        /\ spans[i].promise = "rejected" /\ spans[i].ends = 1
        /\ spans[j].promise = "resolved" /\ spans[j].ends = 1

\* C2 as stated: when fn throws e, the span (once ended) holds e as a recorded
\* exception and status ERROR with message e.message, the calls were made
\* before end(), and withSpan rejects with e itself and never resolves.
C2_Original ==
    \A i \in SpanIds :
        (spans[i].fnOut = "threw" /\ spans[i].ends >= 1) =>
            /\ spans[i].fnErr \in spans[i].exceptions
            /\ spans[i].status = "ERROR"
            /\ spans[i].message = spans[i].fnErr.message
            /\ spans[i].log = <<"start", "setStatus", "recordException", "end">>
            /\ spans[i].promise # "resolved"
            /\ spans[i].promise = "rejected" => spans[i].value = spans[i].fnErr

\* C2 amended: as C2, with the status message being e.message when e is an
\* Error instance and 'Unknown error' for every other thrown value.
C2_ErrorRecordedAndRethrown ==
    \A i \in SpanIds :
        (spans[i].fnOut = "threw" /\ spans[i].ends >= 1) =>
            /\ spans[i].fnErr \in spans[i].exceptions
            /\ spans[i].status = "ERROR"
            /\ spans[i].message = IF spans[i].fnErr.isError
                                  THEN spans[i].fnErr.message ELSE "Unknown error"
            /\ spans[i].log = <<"start", "setStatus", "recordException", "end">>
            /\ spans[i].promise # "resolved"
            /\ spans[i].promise = "rejected" => spans[i].value = spans[i].fnErr

\* A fn that wrote OK and then threw a string, inside an outer withSpan that
\* rejected with the same value.
C2_Witness ==
    \E i, j \in SpanIds :
        /\ spans[i].parent = j
        /\ spans[i].promise = "rejected" /\ spans[i].value = ErrString
        /\ spans[i].fnStatus = "OK" /\ spans[i].message = "Unknown error"
        /\ spans[j].promise = "rejected" /\ spans[j].value = ErrString

\* C3: a span whose fn was cancelled or abandoned while suspended, and whose
\* flow can take no further step, has been ended exactly once with status ERROR.
C3_CancelledSpanFinalized ==
    \A i \in SpanIds :
        (spans[i].fnOut = "abandoned" /\ ~ENABLED NextSpan) =>
            spans[i].ends = 1 /\ spans[i].status = "ERROR"

\* C4: after a normal return of fn the span is ended with status OK, unless fn
\* itself set ERROR, and then with ERROR.
C4_FnStatusKept ==
    \A i \in SpanIds :
        (spans[i].fnOut = "returned" /\ spans[i].ends >= 1) =>
            spans[i].status = IF spans[i].fnStatus = "ERROR" THEN "ERROR" ELSE "OK"

\* C5: the lifecycle's calls on a span are start, one setStatus (then
\* recordException on the error path), end, in that order and with nothing
\* after end(); when end() is called the last status written is OK or ERROR.
C5_SpanStateMachine ==
    \A i \in SpanIds :
        /\ spans[i].log \in {<<"start">>,
                             <<"start", "setStatus", "end">>,
                             <<"start", "setStatus", "recordException", "end">>}
        /\ spans[i].ends = 0 <=> spans[i].log = <<"start">>
        /\ spans[i].ends >= 1 => spans[i].status \in {"OK", "ERROR"}

C5_Witness ==
    \E i, j \in SpanIds :
        /\ spans[i].log = <<"start", "setStatus", "end">>
        /\ spans[i].fnStatus = "ERROR"
        /\ spans[j].log = <<"start", "setStatus", "recordException", "end">>

\* C6: a span started by a nested withSpan has the span of the immediately
\* enclosing withSpan as its parent, and whenever a fn runs, the active span
\* is the span of its own withSpan call, also after inner calls completed.
C6_NestedParentIsEnclosing ==
    /\ \A i \in SpanIds : spans[i].parent = spans[i].encl
    /\ \A f \in Flows :
          /\ Running(f) => getCurrentSpan(f) = EnclosingSpan(stack[f])
          /\ stack[f] = << >> => getCurrentSpan(f) = NoSpan

\* Two siblings run one after the other under an outer span that has passed a
\* suspension point, while the other flow has a span of its own.
C6_Witness ==
    \E i, j, k \in SpanIds :
        /\ i < j /\ spans[i].parent = k /\ spans[j].parent = k
        /\ spans[i].promise # "pending"
        /\ spans[j].ends = 0
        /\ stack[spans[k].flow][1].awaited

-----------------------------------------------------------------------------
(* The ambient context under interleaving: claims C7 and C8 *)

\* The Identity a flow's handler is to observe, read off the flow's message.
ObservesOwn(f, c) ==
    /\ \A k \in {"traceId", "eventId", "eventType", "userId"} : c[k] = Prop(msg[f], k)
    /\ c.requestId = Unset /\ c.spanId = Unset
    /\ IF "correlationId" \in DOMAIN msg[f]
       THEN c.correlationId = msg[f].correlationId
       ELSE c.correlationId \in Generated

C8_CallerIdentityRestored ==
    \A f \in Flows :
        outcome[f].state \in {"resolved", "rejected"} =>
            /\ getCurrentTraceContext(f) = callerId[f]
            /\ als[f] = <<callerId[f]>>
            /\ after[f] \subseteq {callerId[f]}

C8_Witness ==
    /\ outcome["A"].state = "rejected" /\ after["A"] = {CallerContext}
    /\ outcome["B"].state = "resolved" /\ after["B"] = {EmptyContext}
    /\ seen["A"] # {} /\ seen["B"] # {}

-----------------------------------------------------------------------------
(* Requests: claims C9 and C10 *)

IdentityKeys == {"correlationId", "traceId", "requestId"}

Responded(f) == http[f].pc \in {"sent", "finished"}

RequestObserves(f, c) ==
    LET h == http[f]
    IN /\ c.requestId \in Generated
       /\ c.requestId = Prop(h.resHeaders, "x-request-id")
       /\ c.correlationId = Prop(h.resHeaders, "x-correlation-id")
       /\ IF "x-correlation-id" \in DOMAIN h.req.headers
          THEN c.correlationId = h.req.headers["x-correlation-id"]
          ELSE c.correlationId \in Generated
       /\ c.userId = h.req.user
       /\ c.traceId = IF h.req.traceparent = TraceparentValid THEN TraceIdA ELSE Unset
       /\ c.traceId = Prop(h.resHeaders, "x-trace-id")

-----------------------------------------------------------------------------
(* The Express middleware under every configuration: claims C11 to C16 *)

PastMiddleware(f) == http[f].pc \notin {"none", "middleware"}

Called(f, op) == {i \in 1..Len(http[f].calls) : http[f].calls[i].op = op}

\* C11: with the default header name, a correlation id the request carries is
\* the Identity's correlationId, the 'correlation.id' span attribute and
\* (where the header is mirrored) the correlation response header; absent
\* one, with generation enabled, a generated id is in all three places; with
\* generation disabled the correlationId is unset, neither the header nor the
\* attribute is written, and next() has been called all the same.
C11_CorrelationIdUsedOrGenerated ==
    \A f \in Flows :
        (PastMiddleware(f) /\ http[f].options.correlationIdHeader = "x-correlation-id") =>
            LET h == http[f]
                id == getCurrentTraceContext(f).correlationId
                attrs == spans[ServerSpanOf(f)].attrs
            IN /\ IF "x-correlation-id" \in DOMAIN h.req.headers
                  THEN id = h.req.headers["x-correlation-id"]
                  ELSE IF h.options.generateCorrelationId
                  THEN id \in Generated
                  ELSE id = Unset
               /\ Prop(attrs, "correlation.id") = id
               /\ Prop(h.resHeaders, "x-correlation-id") =
                      IF h.options.addCorrelationIdToResponse THEN id ELSE Unset
               /\ Called(f, "next") # {}

\* One request brought its id, the other got a generated one; a third
\* configuration has generation disabled and still reaches the handler.
C11_Witness ==
    /\ http["A"].req = ReqFull /\ http["A"].pc = "handler"
    /\ http["A"].options = DefaultOptions
    /\ getCurrentTraceContext("A").correlationId = "c-1"
    /\ http["A"].resHeaders["x-correlation-id"] = "c-1"
    /\ http["B"].req = ReqPlain /\ http["B"].pc = "handler"
    /\ getCurrentTraceContext("B").correlationId \in Generated
    /\ spans[2].attrs["correlation.id"] = http["B"].resHeaders["x-correlation-id"]

\* C12: the requestId of a request is a generated id, different for every
\* request and never the value of an inbound header (x-request-id included),
\* whereas the correlationId is the request's own when it carries one; the
\* same requestId is in the x-request-id response header, the 'request.id'
\* span attribute and the ambient Identity.
C12_RequestIdAlwaysFresh ==
    /\ \A f \in Flows :
          PastMiddleware(f) =>
              LET h == http[f]
                  context == getCurrentTraceContext(f)
              IN /\ context.requestId \in Generated
                 /\ \A k \in DOMAIN h.req.headers :
                        context.requestId # h.req.headers[k]
                 /\ h.resHeaders["x-request-id"] = context.requestId
                 /\ spans[ServerSpanOf(f)].attrs["request.id"] = context.requestId
                 /\ "x-correlation-id" \in DOMAIN h.req.headers =>
                        context.correlationId = h.req.headers["x-correlation-id"]
                 /\ context.requestId # context.correlationId
    /\ \A f, g \in Flows :
          (f # g /\ PastMiddleware(f) /\ PastMiddleware(g)) =>
              getCurrentTraceContext(f).requestId # getCurrentTraceContext(g).requestId

\* Both requests came with an x-request-id and a correlation id of their own.
C12_Witness ==
    /\ \A f \in Flows : http[f].req = ReqInbound /\ PastMiddleware(f)
    /\ \A f \in Flows : getCurrentTraceContext(f).correlationId = "c-2"
    /\ http["A"].resHeaders["x-request-id"] \in Generated
    /\ http["A"].resHeaders["x-request-id"] # http["B"].resHeaders["x-request-id"]

\* The names of the response headers a configuration writes for given ids.
HeadersWritten(options, context) ==
    LET writes == HeaderWrites(options, context.correlationId, context.requestId,
                               context.traceId)
    IN {writes[i].arg : i \in 1..Len(writes)}

\* C13: each response header the middleware writes for a request can be
\* switched off alone: for each of them there is a configuration (same header
\* name) under which the request gets the other headers and not that one.
C13_EachHeaderToggleable ==
    \A f \in Flows :
        PastMiddleware(f) =>
            LET context == getCurrentTraceContext(f)
                allOn == [http[f].options EXCEPT !.addCorrelationIdToResponse = TRUE,
                                                 !.addTraceIdToResponse = TRUE]
                full == HeadersWritten(allOn, context)
            IN \A hdr \in full :
                  \E options \in TracingMiddlewareOptions :
                      /\ options.correlationIdHeader = allOn.correlationIdHeader
                      /\ HeadersWritten(options, context) = full \ {hdr}

\* C14: the middleware's res.setHeader calls for the correlation, request-id
\* and trace-id headers all come before its call of next(), so no response
\* is sent before they are written; next() is called exactly once per
\* request, with no argument.
C14_HeadersBeforeNext ==
    \A f \in Flows :
        LET h == http[f]
            nexts == Called(f, "next")
            sets == Called(f, "setHeader")
        IN /\ h.pc = "middleware" =>
                  h.calls = << >> /\ h.status = 0 /\ h.resHeaders = NoAttrs
           /\ PastMiddleware(f) =>
                  /\ Cardinality(nexts) = 1
                  /\ \A n \in nexts :
                         /\ h.calls[n].arg = Unset
                         /\ \A i \in sets : i < n
                  /\ DOMAIN h.resHeaders = {h.calls[i].arg : i \in sets}
                  /\ \A i \in sets : h.resHeaders[h.calls[i].arg] = h.calls[i].value
                  /\ "x-request-id" \in DOMAIN h.resHeaders
           /\ h.status # 0 => PastMiddleware(f)

\* A request that gets all three headers has been answered.
C14_Witness ==
    /\ http["A"].req = ReqFull /\ http["A"].pc = "finished"
    /\ http["A"].status = 200
    /\ DOMAIN http["A"].resHeaders = {"x-correlation-id", "x-request-id", "x-trace-id"}
    /\ Len(http["A"].calls) = 5
    /\ http["B"].pc = "middleware"

\* C15: when a response of a request that passed the middleware has finished
\* with status code s, the request's span has 'http.response.status_code' = s
\* and its status is ERROR exactly when s >= 500 and OK for every other s,
\* 4xx included.
C15_FinishRecordsStatus ==
    \A f \in Flows :
        (http[f].pc = "finished" /\ http[f].listening) =>
            LET span == spans[ServerSpanOf(f)]
                s == http[f].status
            IN /\ span.attrs["http.response.status_code"] = s
               /\ span.status = "ERROR" <=> s >= 500
               /\ span.status = "OK" <=> s < 500
               /\ s >= 500 => span.message = <<"HTTP", s>>

\* A 404 sent by the error middleware ends OK, a 500 ends ERROR.
C15_Witness ==
    /\ http["A"].pc = "finished" /\ http["A"].status = 404
    /\ http["A"].err = HttpErrMissing
    /\ spans[1].status = "OK"
    /\ http["B"].pc = "finished" /\ http["B"].status = 500
    /\ spans[2].status = "ERROR"
    /\ spans[2].attrs["http.response.status_code"] = 500

\* C16: with correlationIdHeader = H configured, whatever H is, the
\* correlation id of a request is the value of its header H, and that value is
\* what the middleware writes to response header H.
C16_ConfiguredHeaderIsRead ==
    \A f \in Flows :
        LET h == http[f]
            H == h.options.correlationIdHeader
        IN (PastMiddleware(f) /\ H \in DOMAIN h.req.headers) =>
               /\ getCurrentTraceContext(f).correlationId = h.req.headers[H]
               /\ h.options.addCorrelationIdToResponse =>
                      Prop(h.resHeaders, H) = h.req.headers[H]

-----------------------------------------------------------------------------
(* The Service Bus consumer adapter: claims C17 to C20 *)

\* The spans started in flow f.
SpansOf(f) == {i \in 1..Len(spans) : spans[i].flow = f}

\* C17: for a message with correlationId C and eventType T whose handler,
\* wrapped with default options, throws an Error with message M: one span is
\* produced, of kind CONSUMER, named 'consume T', with correlation.id = C,
\* ended once with status ERROR and message M, and the wrapped handler's
\* promise rejects with that same error.
C17_FailedMessageSpan ==
    \A f \in Flows :
        (Prop(msg[f], "correlationId") # Unset /\ Prop(msg[f], "eventType") # Unset) =>
            /\ Cardinality(SpansOf(f)) <= 1
            /\ outcome[f].state \in {"resolved", "rejected"} => SpansOf(f) # {}
            /\ \A i \in SpansOf(f) :
                  /\ spans[i].kind = "CONSUMER"
                  /\ spans[i].name = <<"consume", msg[f].eventType>>
                  /\ spans[i].attrs["correlation.id"] = msg[f].correlationId
                  /\ (spans[i].fnOut = "threw" /\ spans[i].fnErr.isError) =>
                        /\ outcome[f].state \in {"pending", "rejected"}
                        /\ outcome[f].state = "rejected" =>
                              /\ spans[i].ends = 1
                              /\ spans[i].status = "ERROR"
                              /\ spans[i].message = spans[i].fnErr.message
                              /\ outcome[f].value = spans[i].fnErr

\* The user.created message of correlation c-1 failed with 'db down'.
C17_Witness ==
    /\ msg["A"] = MsgUser
    /\ outcome["A"] = Settled(TRUE, ErrDbDown)
    /\ \E i \in SpansOf("A") :
          /\ spans[i].name = <<"consume", "user.created">>
          /\ spans[i].kind = "CONSUMER"
          /\ spans[i].attrs["correlation.id"] = "c-1"
          /\ spans[i].status = "ERROR" /\ spans[i].message = "db down"
          /\ spans[i].ends = 1

\* The fn of span i has been invoked and has completed.
HandlerDone(i) == spans[i].fnOut \in {"returned", "threw"}

\* C18: per call of the wrapped function the handler is invoked at most
\* once: one CONSUMER span's fn per flow, and a handler that has completed
\* is never running again (no retry); a failure is never suppressed: the
\* wrapped function's promise rejects with what the handler threw and never
\* resolves after a throw.
C18_NoRetryNoSuppression ==
    /\ [](\A f \in Flows :
            /\ Cardinality(SpansOf(f)) <= 1
            /\ \A i \in SpansOf(f) :
                  /\ spans[i].fnOut = "threw" =>
                        /\ ~Running(f)
                        /\ outcome[f].state \in {"pending", "rejected"}
                        /\ outcome[f].state = "rejected" =>
                               outcome[f].value = spans[i].fnErr
                  /\ outcome[f].state = "rejected" => spans[i].fnOut = "threw"
                  /\ outcome[f].state = "resolved" => spans[i].fnOut = "returned")
    /\ [][\A f \in Flows :
            outcome[f].state # "idle" =>
                /\ SpansOf(f)' = SpansOf(f)
                /\ \A i \in SpansOf(f) :
                      HandlerDone(i) => spans'[i].fnOut = spans[i].fnOut]_vars

\* The handler threw a string once; the caller got it back.
C18_Witness ==
    /\ outcome["A"] = Settled(TRUE, ErrString)
    /\ Cardinality(SpansOf("A")) = 1
    /\ \A i \in SpansOf("A") : spans[i].fnOut = "threw" /\ spans[i].ends = 1
    /\ after["A"] # {}

\* The span attribute that carries a field of the handler context.
AttributeOf == [correlationId |-> "correlation.id", eventId |-> "event.id",
                eventType |-> "event.type", userId |-> "user.id"]

C20_SpanNameRule ==
    \A f \in Flows : \A i \in SpansOf(f) :
        LET spanName == busOptions[f].spanName
        IN spans[i].name =
              IF spanName.type = "function" THEN SpanNameFn(msg[f])
              ELSE IF spanName.type = "string" /\ spanName.value # << >>
              THEN spanName.value
              ELSE IF "eventType" \in DOMAIN msg[f]
              THEN <<"consume", msg[f].eventType>>
              ELSE <<"consume", "message">>

\* Wrapped with spanName '', a message without application properties has
\* been handled under the name 'consume message'.
C20_Witness ==
    /\ busOptions["A"].spanName = [type |-> "string", value |-> << >>]
    /\ msg["A"] = MsgNone
    /\ outcome["A"].state = "resolved"
    /\ \E i \in SpansOf("A") : spans[i].name = <<"consume", "message">>

-----------------------------------------------------------------------------
(* The Service Bus producer adapter and the codec: claims C21 to C24 *)

ProducerSpansOf(f) == {i \in SpansOf(f) : spans[i].kind = "PRODUCER"}

\* The fields of an Identity that are set, as injection writes them.
SetFields(context) == {k \in InjectKeys : context[k] # Unset}

\* C21: every call of withServiceBusProducerTracing(bag, name) opens one
\* span, of kind PRODUCER and named name; the injection into the bag happens
\* while that span is the active span and has not ended; the span has ended
\* exactly once when the call's promise has settled; so what a caller sends
\* after the call carries every set field of the active Identity.
C21_ProducerSpanAroundInjection ==
    \A f \in Flows :
        LET calls == bag[f].injections
        IN /\ Cardinality(ProducerSpansOf(f)) = Len(calls)
           /\ \A n \in 1..Len(calls) :
                 LET span == spans[calls[n].span]
                 IN /\ calls[n].span \in ProducerSpansOf(f)
                    /\ \A m \in 1..Len(calls) : calls[m].span = calls[n].span => m = n
                    /\ span.name = calls[n].name
                    /\ calls[n].active = calls[n].span
                    /\ calls[n].ends = 0
                    /\ \A k \in SetFields(calls[n].context) :
                          Prop(bag[f].props, k) = calls[n].context[k]
                    /\ span.promise # "pending" => span.ends = 1
                    /\ span.ends <= 1
           /\ \A sent \in bag[f].sent :
                 /\ spans[calls[sent.call].span].ends = 1
                 /\ \A k \in SetFields(calls[sent.call].context) :
                       Prop(sent.props, k) = calls[sent.call].context[k]

\* A handler of the user.created message published under a name and the
\* message was sent with the handler's ids.
C21_Witness ==
    /\ msg["A"] = MsgUser /\ bag["A"].initial = BagEmpty
    /\ Len(bag["A"].injections) = 1
    /\ bag["A"].injections[1].name = <<"publish", "user.created">>
    /\ spans[bag["A"].injections[1].span].ends = 1
    /\ spans[bag["A"].injections[1].span].parent = 1
    /\ bag["A"].sent = {[props |-> [correlationId |-> "c-1",
                                    eventType |-> "user.created",
                                    traceId |-> "t-1"],
                          call |-> 1]}

\* The calls of the producer adapter made inside the handler of a message.
CallsInHandler(f) ==
    {n \in 1..Len(bag[f].injections) :
        LET encl == spans[bag[f].injections[n].span].encl
        IN encl # NoSpan /\ spans[encl].kind = "CONSUMER"}

\* C22: after a call of withServiceBusProducerTracing made inside a handler
\* wrapped by withServiceBusTracing, before or after the handler's awaits,
\* the outgoing bag's correlationId is the inbound message's correlationId,
\* or the id generated for the message if it had none; so is the
\* correlationId of what is sent.
C22_CorrelationIdAcrossHop ==
    \A f \in Flows :
        CallsInHandler(f) # {} =>
            LET C == Prop(bag[f].props, "correlationId")
            IN /\ IF "correlationId" \in DOMAIN msg[f]
                  THEN C = msg[f].correlationId
                  ELSE C \in Generated
               /\ \A n \in CallsInHandler(f) :
                     /\ C = bag[f].injections[n].context.correlationId
                     /\ C = spans[spans[bag[f].injections[n].span].encl]
                                .attrs["correlation.id"]
               /\ \A sent \in bag[f].sent : Prop(sent.props, "correlationId") = C

\* The handler of a message without correlation id published, after an
\* await, a bag that came with a correlation id of its own.
C22_Witness ==
    /\ msg["A"] = MsgNone /\ bag["A"].initial = BagTenant
    /\ InFn("A") /\ Top("A").awaited
    /\ CallsInHandler("A") = {1}
    /\ bag["A"].props["correlationId"] = "gen-1"
    /\ bag["A"].props["tenant"] = "acme"
    /\ bag["A"].sent # {}

\* C23: for every property bag, extracting the Identity, making it the
\* active one and injecting it into an empty bag gives a bag with the same
\* traceId, correlationId, eventId and eventType; a field of these four that
\* the input lacks is not a key of the output.
C23_RoundTrip ==
    \A f \in Flows :
        bag[f].injections # << >> =>
            \A k \in InjectKeys :
                /\ k \in DOMAIN bag[f].props <=> k \in DOMAIN msg[f]
                /\ k \in DOMAIN msg[f] => bag[f].props[k] = msg[f][k]

\* A bag with two of the four fields, userId and a key of the sender's own
\* has gone through the codec.
C23_Witness ==
    /\ DOMAIN msg["A"] = {"correlationId", "eventType", "userId", "tenant"}
    /\ bag["A"].injections # << >>
    /\ bag["A"].props = [correlationId |-> "v-correlationId",
                         eventType |-> "v-eventType"]

\* The Identity fields some injection into the bag of flow f has written.
Written(f) ==
    UNION {SetFields(bag[f].injections[n].context) :
              n \in 1..Len(bag[f].injections)}

\* C24: the producer adapter's injection is a non-destructive merge: a key
\* of the bag that is no Identity field it writes keeps its value, and an
\* Identity field that is unset in the active Identity neither removes nor
\* overwrites the value the bag has for it; no other key appears.
C24_InjectionIsNonDestructive ==
    \A f \in Flows :
        /\ \A k \in DOMAIN bag[f].initial \ Written(f) :
              /\ k \in DOMAIN bag[f].props
              /\ bag[f].props[k] = bag[f].initial[k]
        /\ DOMAIN bag[f].props = DOMAIN bag[f].initial \cup Written(f)
        /\ \A sent \in bag[f].sent :
              \A k \in DOMAIN bag[f].initial \ Written(f) :
                  Prop(sent.props, k) = bag[f].initial[k]

\* Bags with keys of the caller's own went out of a handler whose Identity
\* has only a generated correlation id.
C24_Witness ==
    /\ msg["A"] = MsgNone
    /\ bag["A"].initial = BagEvent
    /\ Written("A") = {"correlationId"}
    /\ bag["A"].props = [eventType |-> "user.created", eventId |-> "e-9",
                         correlationId |-> "gen-1"]
    /\ bag["A"].sent # {}

-----------------------------------------------------------------------------
(* Carriers of every shape: claims C25 and C26 *)

\* A header of the form version-traceid-parentid-flags: 2, 32, 16 and 2
\* hexadecimal digits.
WellFormed(header) ==
    /\ Len(header) = 4
    /\ header[1] \in Hex[2]
    /\ header[2] \in Hex[32]
    /\ header[3] \in Hex[16]
    /\ header[4] \in Hex[2]

\* C25: the trace id the middleware extracts from the traceparent header is
\* the header's 32-digit trace id for every header of the form
\* version-traceid-parentid-flags with a trace id that is not all zeros, and
\* is nothing when the header is absent, has another number of fields, has a
\* malformed version or carries the all-zero trace id; the middleware goes on
\* to next() in every case.
C25_TraceparentParsed ==
    PastMiddleware("A") =>
        LET header == http["A"].req.traceparent
            traceId == getCurrentTraceContext("A").traceId
        IN /\ (WellFormed(header) /\ header[2] # TraceIdZero) => traceId = header[2]
           /\ header = NoHeader => traceId = Unset
           /\ Len(header) # 4 => traceId = Unset
           /\ (Len(header) = 4 /\ header[1] \notin Hex[2]) => traceId = Unset
           /\ (Len(header) = 4 /\ header[2] = TraceIdZero) => traceId = Unset
           /\ Called("A", "next") # {}

C25_Witness ==
    /\ PastMiddleware("A")
    /\ http["A"].req.traceparent = <<"zz", TraceIdA, "00f067aa0ba902b7", "01">>
    /\ getCurrentTraceContext("A").traceId = Unset
    /\ Called("A", "next") # {}

-----------------------------------------------------------------------------
(* The logger in interleaved flows: claim C27 *)

\* C27: a log record contains each of the seven identity fields exactly when
\* the field is set in the Identity active where and when the record is
\* emitted, with that value: inside a handler the ids of the handler's own
\* message (a generated correlationId where the message has none), in the
\* caller the caller's Identity from before the call; records of two
\* interleaved handlers never carry one generated correlationId.
C27_LogCarriesIdentityAtEmission ==
    /\ \A r \in logs :
          /\ DOMAIN r.record = {k \in Fields : r.at[k] # Unset}
          /\ \A k \in DOMAIN r.record : r.record[k] = r.at[k]
          /\ r.scope = "caller" => r.at = callerId[r.flow]
          /\ r.scope = "handler" =>
                /\ \A k \in BusKeys \ {"correlationId"} :
                      Prop(r.record, k) = Prop(msg[r.flow], k)
                /\ IF "correlationId" \in DOMAIN msg[r.flow]
                   THEN r.record["correlationId"] = msg[r.flow]["correlationId"]
                   ELSE r.record["correlationId"] \in Generated
    /\ \A r, q \in logs :
          (r.flow # q.flow /\ r.scope = "handler" /\ q.scope = "handler"
                /\ r.record["correlationId"] \in Generated) =>
              r.record["correlationId"] # q.record["correlationId"]

\* Both handlers are running and have logged, A for the user.created message
\* and B for the order.paid one; A's caller had logged before the call, with
\* no Identity.
C27_Witness ==
    /\ msg["A"] = MsgUser /\ msg["B"] = MsgOrder
    /\ InFn("A") /\ InFn("B")
    /\ \E r, q, c \in logs :
          /\ r.flow = "A" /\ r.scope = "handler" /\ r.record["eventType"] = "user.created"
          /\ q.flow = "B" /\ q.scope = "handler" /\ q.record["eventType"] = "order.paid"
          /\ c.flow = "A" /\ c.scope = "caller" /\ c.record = NoAttrs

-----------------------------------------------------------------------------
(* The trace of a span: claim C28 *)

\* Trace ids the tracer generates for spans started without a parent.
NewTraceIds == <<"trace-1", "trace-2", "trace-3", "trace-4", "trace-5">>

\* startActiveSpan(name, options, fn) is given no context and no links: the
\* span is a child of the span active in the caller and is in its trace; a
\* span started where none is active begins a new trace.
RECURSIVE TraceOf(_)
TraceOf(i) ==
    IF spans[i].parent = NoSpan THEN NewTraceIds[i] ELSE TraceOf(spans[i].parent)

\* C28: for a message whose application properties carry a traceId, the
\* CONSUMER span and every span nested under it are in that trace, and inside
\* the handler the traceId of the ambient Identity is the trace id of the
\* active span.
C28_SpansInMessageTrace ==
    \A f \in Flows :
        Prop(msg[f], "traceId") # Unset =>
            /\ \A i \in SpansOf(f) : TraceOf(i) = msg[f]["traceId"]
            /\ (InFn(f) /\ getCurrentSpan(f) # NoSpan) =>
                  getCurrentTraceContext(f).traceId = TraceOf(getCurrentSpan(f))

-----------------------------------------------------------------------------
(* The span handed to fn: claim C29 *)

\* C29: fn cannot set the status of its span nor end it: no span carries a
\* status written by fn, no span is ended while its fn is running, and no
\* span is ended twice.
C29_HandleRestricted ==
    \A i \in SpanIds :
        /\ spans[i].fnStatus = "UNSET"
        /\ spans[i].fnOut = "running" => spans[i].ends = 0
        /\ spans[i].ends <= 1

-----------------------------------------------------------------------------
(* The tracer's initialization guard: claim C30 *)

\* The SDKs that were started and on which shutdown has not completed.
Live == {i \in 1..Len(tracer.sdks) : tracer.sdks[i] = "started"}

\* C30: an initTracing call made while tracing is initialized creates no SDK,
\* so at most one started SDK that is not yet shut down exists at any time;
\* an initTracing call with tracing disabled creates no SDK and leaves
\* isInitialized as it was.
C30_NoDoubleInitialization ==
    /\ Cardinality(Live) <= 1
    /\ tracer.last.wasInitialized => ~tracer.last.created
    /\ tracer.last.disabled =>
          /\ ~tracer.last.created
          /\ tracer.last.isInitialized = tracer.last.wasInitialized

-----------------------------------------------------------------------------
(* shutdownTracing: claims C31 and C38 *)

\* A shutdownTracing call in flight settles in this step.
Settles == Len(tracer'.pending) < Len(tracer.pending)

\* C31: a shutdownTracing call made where tracing is not initialized changes
\* neither sdk, the SDKs nor isInitialized; isInitialized is cleared only by a
\* call whose sdk.shutdown() resolved, and is cleared by every such call; a
\* call whose sdk.shutdown() rejected rejects and leaves isInitialized and the
\* SDKs as they were; an enabled initTracing call made where tracing is not
\* initialized creates a new SDK.
C31_ShutdownClearsOnlyOnSuccess ==
    /\ [](tracer.last.op = "initTracing" =>
             tracer.last.created = (~tracer.last.disabled /\ ~tracer.last.wasInitialized))
    /\ [][/\ (tracer'.settled = "skipped" /\ tracer.settled # "skipped") =>
                /\ ~tracer.isInitialized
                /\ tracer'.isInitialized = tracer.isInitialized
                /\ tracer'.sdk = tracer.sdk
                /\ tracer'.sdks = tracer.sdks
                /\ tracer'.pending = tracer.pending
          /\ (tracer.isInitialized /\ ~tracer'.isInitialized) =>
                Settles /\ tracer'.settled = "resolved"
          /\ (Settles /\ tracer'.settled = "resolved") =>
                ~tracer'.isInitialized
          /\ (Settles /\ tracer'.settled = "rejected") =>
                /\ tracer'.isInitialized = tracer.isInitialized
                /\ tracer'.sdks = tracer.sdks
                /\ tracer'.sdk = tracer.sdk]_vars

\* A first SDK was shut down, a second one was started by a later initTracing,
\* and its shutdown failed: tracing is still initialized with that SDK.
C31_Witness ==
    /\ tracer.sdks = <<"shutdown", "started">>
    /\ tracer.settled = "rejected"
    /\ tracer.isInitialized
    /\ tracer.pending = << >>

\* C38: shutdown() is invoked at most once on each SDK: no SDK is awaited by
\* two shutdownTracing calls at a time.
C38_ShutdownInvokedOnce ==
    \A i \in 1..Len(tracer.sdks) :
        Cardinality({n \in 1..Len(tracer.pending) : tracer.pending[n] = i}) <= 1

-----------------------------------------------------------------------------
(* The ambient scope encloses the span: claim C32 *)

\* C32: while the CONSUMER span of a message is not ended, the scope of
\* runWithTraceContext is installed and its Identity is the one the span's
\* attributes were taken from; while the handler runs, the span's attributes
\* are set; the step that exits the scope is taken with the span ended and
\* its status written, after a return and after a throw of the handler.
C32_ScopeEnclosesSpan ==
    /\ [](\A f \in Flows : \A i \in SpansOf(f) :
             /\ spans[i].ends = 0 =>
                   /\ Len(als[f]) = 2
                   /\ getCurrentTraceContext(f).correlationId
                          = spans[i].attrs["correlation.id"]
             /\ InFn(f) => spans[i].attrs["messaging.system"] = "servicebus"
             /\ outcome[f].state \in {"resolved", "rejected"} =>
                   /\ spans[i].ends = 1
                   /\ Len(als[f]) = 1)
    /\ [][\A f \in Flows :
             Len(als'[f]) < Len(als[f]) =>
                 /\ SpansOf(f) # {}
                 /\ \A i \in SpansOf(f) :
                       /\ spans[i].ends = 1
                       /\ spans[i].log[Len(spans[i].log)] = "end"
                       /\ spans[i].status =
                              IF spans[i].fnOut = "threw" THEN "ERROR" ELSE "OK"]_vars

\* The handler threw; the span was ended with ERROR and the scope has been
\* exited since.
C32_Witness ==
    /\ outcome["A"].state = "rejected"
    /\ Len(als["A"]) = 1
    /\ \E i \in SpansOf("A") :
          /\ spans[i].log = <<"start", "setStatus", "recordException", "end">>
          /\ spans[i].status = "ERROR"

-----------------------------------------------------------------------------
(* The error middleware: claims C33 and C34 *)

\* C33: once the error middleware has handled the error of a request that
\* passed the tracing middleware, the status of the request's span is ERROR
\* and stays ERROR, whatever status code the error carries, also after the
\* 'finish' listener has run.
C33_ErrorStatusIsLast ==
    \A f \in Flows :
        (http[f].traced /\ http[f].err # NoHttpErr /\ Responded(f)) =>
            spans[ServerSpanOf(f)].status = "ERROR"

\* C34: for every error and every configuration the error middleware sets
\* the status (err.statusCode if it is not zero, 500 otherwise), sends one
\* body and calls nothing else, next() included, whether it logs or not; the
\* default body has message and type, correlationId, traceId and requestId
\* exactly where the current Identity has them, and the stack exactly if
\* includeStack; with formatError the body is formatError's result alone.
C34_ErrorMiddlewareAnswers ==
    \A f \in Flows :
        (http[f].pc # "none" /\ http[f].err # NoHttpErr) =>
            LET h == http[f]
                context == getCurrentTraceContext(f)
                code == IF h.err.statusCode # 0 THEN h.err.statusCode ELSE 500
            IN /\ h.pc = "error" => h.errCalls = << >>
               /\ Responded(f) =>
                     /\ h.status = code
                     /\ h.errCalls = <<Call("status", Unset, code),
                                       Call("json", Unset, h.body)>>
                     /\ h.errorLogged # "none" <=> h.errOptions.logErrors
                     /\ IF h.errOptions.formatError
                        THEN h.body = FormatError(h.err, h.req)
                        ELSE /\ DOMAIN h.body =
                                    {"message", "type"}
                                    \cup {k \in IdentityKeys : context[k] # Unset}
                                    \cup (IF h.errOptions.includeStack
                                          THEN {"stack"} ELSE {})
                             /\ h.body["message"] = h.err.message
                             /\ h.body["type"] = h.err.name
                             /\ \A k \in IdentityKeys \cap DOMAIN h.body :
                                   h.body[k] = context[k]

\* A traced request failed with the 404 error and was answered, without
\* logging, with the default body and the stack.
C34_Witness ==
    /\ http["A"].pc = "finished"
    /\ http["A"].traced
    /\ http["A"].err = HttpErrMissing
    /\ http["A"].status = 404
    /\ ~http["A"].errOptions.logErrors
    /\ {"stack", "requestId", "correlationId"} \subseteq DOMAIN http["A"].body

-----------------------------------------------------------------------------
(* asyncHandler: claim C35 *)

\* C35: where fn's promise rejected, asyncHandler calls next once, with the
\* rejection value, and not before the rejection; where the promise resolved
\* or is pending it has not called next; where fn threw before returning a
\* promise the error escapes and next is not called.
C35_AsyncHandlerForwardsRejection ==
    \A f \in Flows :
        http[f].pc # "none" =>
            LET h == http[f]
            IN /\ h.fn.out \in {"none", "pending", "resolved"} => h.fn.next = << >>
               /\ h.fn.out = "rejected" =>
                     h.fn.next = IF h.pc = "rejected" THEN << >> ELSE <<h.fn.value>>
               /\ h.fn.out = "threw" => h.pc = "escaped" /\ h.fn.next = << >>
               /\ h.fn.next # << >> => h.err = h.fn.value

\* fn rejected with the 404 error, next received it and the error middleware
\* answered with 404.
C35_Witness ==
    /\ http["A"].fn.out = "rejected"
    /\ http["A"].fn.next = <<HttpErrMissing>>
    /\ http["A"].pc = "finished"
    /\ http["A"].status = 404

-----------------------------------------------------------------------------
(* Thrown values that are no Error: claim C36 *)

\* C36: where fn threw a value that is not an Error instance, withSpan's
\* promise rejects with that very value, and by then the span has been ended
\* once, with status ERROR and message 'Unknown error', the value recorded as
\* its exception.
C36_NonErrorThrown ==
    \A i \in SpanIds :
        (spans[i].fnOut = "threw" /\ ~spans[i].fnErr.isError) =>
            /\ spans[i].promise \in {"pending", "rejected"}
            /\ spans[i].ends <= 1
            /\ spans[i].ends = 1 =>
                  /\ spans[i].status = "ERROR"
                  /\ spans[i].message = "Unknown error"
                  /\ spans[i].exceptions = {spans[i].fnErr}
            /\ spans[i].promise = "rejected" =>
                  /\ spans[i].ends = 1
                  /\ spans[i].value = spans[i].fnErr

\* fn threw a plain object with a message of its own.
C36_Witness ==
    \E i \in SpanIds :
        /\ spans[i].fnErr = ErrObject
        /\ spans[i].promise = "rejected" /\ spans[i].value = ErrObject
        /\ spans[i].ends = 1 /\ spans[i].message = "Unknown error"

-----------------------------------------------------------------------------
(* The span helpers: claim C37 *)

\* C37: a helper call acts on the span active in the calling flow at the
\* call, which inside a fn is the span of the innermost withSpan; every other
\* span, the enclosing ones and those of the other flow included, is left as
\* it was; with no span active nothing changes.
C37_HelpersActOnActiveSpan ==
    [][\A f \in Flows :
          Len(helped'[f]) > Len(helped[f]) =>
              LET call == helped'[f][Len(helped'[f])]
              IN /\ call.span = getCurrentSpan(f)
                 /\ call.span = EnclosingSpan(stack[f])
                 /\ Len(spans') = Len(spans)
                 /\ \A i \in 1..Len(spans) : i # call.span => spans'[i] = spans[i]
                 /\ call.span = NoSpan => spans' = spans
                 /\ call.span # NoSpan =>
                       /\ spans[call.span].flow = f
                       /\ spans'[call.span].ends = spans[call.span].ends]_vars

\* Flow A called setSpanStatus with no span active, then addSpanEvent inside
\* a nested withSpan: the inner span has the event and the outer has none.
C37_Witness ==
    /\ Len(helped["A"]) = 2
    /\ helped["A"][1] = [op |-> "setSpanStatus", span |-> NoSpan]
    /\ helped["A"][2].op = "addSpanEvent"
    /\ helped["A"][2].span # NoSpan
    /\ LET inner == helped["A"][2].span
       IN /\ spans[inner].parent # NoSpan
          /\ spans[inner].events = {"email.sent"}
          /\ spans[spans[inner].parent].events = {}
          /\ spans[spans[inner].parent].status = "UNSET"

====
